---- MODULE Spec2Model ----
(***************************************************************************)
(* Pinbox syncer: the bookmark API client (src/src/pinboxApi.ts) and the   *)
(* sync service (src/src/syncService.ts) as a state machine.               *)
(*                                                                         *)
(* Text is a sequence of tokens (strings).  A token is one character, or   *)
(* one of the fixed phrases the code searches for; phrases that are not    *)
(* ASCII in the source are written as ASCII stand-ins (see the phrase      *)
(* definitions).  File names and paths are sequences of tokens too.        *)
(***************************************************************************)
EXTENDS Integers, Sequences, FiniteSets, TLC

VARIABLES
  remote,         \* the bookmark service: listed collections and the items of each
  remoteChanges,  \* how many times the remote state has changed so far
  vault,          \* the vault's files: path -> content
  folders,        \* the vault's folders
  clock,          \* wall clock (Date.now / new Date)
  svc,            \* the SyncService fields: syncFolder, downloadImages, imageFolder
  task            \* the running operations (sync passes or API calls), by id

vars == <<remote, remoteChanges, vault, folders, clock, svc, task>>

----------------------------------------------------------------------------
(* Bounds *)

MaxPasses == 2          \* operations started in one behaviour
MaxClock == 1           \* clock ticks in one behaviour
MaxRemoteChanges == 1   \* remote changes in one behaviour

----------------------------------------------------------------------------
(* Program constants *)

pageSize == 50          \* getAllCollectionItems
retries == 3            \* fetchWebContent's default argument
MinContentLength == 100 \* fetchWebContent: "suspiciously short" threshold
MaxFileNameLength == 200 \* sanitizeFileName: substring(0, 200)

Null == <<"<null>">>    \* the null returned by fetchWebContent (no text equals it)

----------------------------------------------------------------------------
(* Generic helpers on sequences of tokens *)

Min(a, b) == IF a < b THEN a ELSE b

Take(s, n) == SubSeq(s, 1, Min(n, Len(s)))

Drop(s, n) == SubSeq(s, n + 1, Len(s))

\* the concatenation of the texts parts[lo..hi] (by halves, to keep the
\* evaluation shallow)
RECURSIVE ConcatRange(_, _, _)
ConcatRange(parts, lo, hi) ==
  IF lo > hi THEN <<>>
  ELSE IF lo = hi THEN parts[lo]
  ELSE LET mid == (lo + hi) \div 2
       IN ConcatRange(parts, lo, mid) \o ConcatRange(parts, mid + 1, hi)

Concat(parts) == ConcatRange(parts, 1, Len(parts))

\* the tokens of s at the positions where keep is TRUE
Pick(s, keep) == Concat([i \in 1..Len(s) |-> IF keep[i] THEN <<s[i]>> ELSE <<>>])

\* Array.prototype.join(sep) on an array of texts
Join(lines, sep) ==
  Concat([i \in 1..Len(lines) |-> IF i = 1 THEN lines[i] ELSE sep \o lines[i]])

\* String(n) for a non-negative integer: its decimal digits
Digit(d) == <<"0", "1", "2", "3", "4", "5", "6", "7", "8", "9">>[d + 1]

RECURSIVE NumStr(_)
NumStr(n) == IF n < 10 THEN <<Digit(n)>> ELSE NumStr(n \div 10) \o <<Digit(n % 10)>>

\* the characters JavaScript's \s and trim() treat as whitespace
SpaceChars == {" ", "\t", "\n", "\r"}

IsSpace(c) == c \in SpaceChars

\* the end of the run of tokens of class that starts at i (i itself when
\* s[i] is not of the class)
RunEnd(s, i, class) ==
  CHOOSE e \in i..(Len(s) + 1) :
    /\ \A x \in i..(e - 1) : s[x] \in class
    /\ (e = Len(s) + 1 \/ s[e] \notin class)

\* the start of the run of tokens of class that ends at i
RunStart(s, i, class) ==
  CHOOSE b \in 1..(i + 1) :
    /\ \A x \in b..i : s[x] \in class
    /\ (b = 1 \/ s[b - 1] \notin class)

TrimStart(s) == SubSeq(s, RunEnd(s, 1, SpaceChars), Len(s))

TrimEnd(s) == SubSeq(s, 1, RunStart(s, Len(s), SpaceChars) - 1)

Trim(s) == TrimEnd(TrimStart(s))

\* String.prototype.replace(/"/g, '\\"')
EscapeQuotes(s) ==
  Concat([i \in 1..Len(s) |-> IF s[i] = "\"" THEN <<"\\", "\"">> ELSE <<s[i]>>])

\* String.prototype.replace(/\n/g, ' ')
NewlinesToSpaces(s) == [i \in 1..Len(s) |-> IF s[i] = "\n" THEN " " ELSE s[i]]

----------------------------------------------------------------------------
(* SyncService.sanitizeFileName *)

InvalidFileChars == {"\\", "/", ":", "*", "?", "\"", "<", ">", "|"}

\* .replace(/[\\/:*?"<>|]/g, '-')
ReplaceInvalid(s) == [i \in 1..Len(s) |-> IF s[i] \in InvalidFileChars THEN "-" ELSE s[i]]

\* .replace(/\s+/g, ' ')
CollapseSpace(s) ==
  Pick([i \in 1..Len(s) |-> IF IsSpace(s[i]) THEN " " ELSE s[i]],
       [i \in 1..Len(s) |-> ~(IsSpace(s[i]) /\ i > 1 /\ IsSpace(s[i - 1]))])

\* Faulty variant: the name is not cut to its maximal length.
sanitizeFileNameNoLimit(name) == Trim(CollapseSpace(ReplaceInvalid(name)))

sanitizeFileName(name) == Take(Trim(CollapseSpace(ReplaceInvalid(name))), MaxFileNameLength)

----------------------------------------------------------------------------
(* Phrases the code searches for.  The non-ASCII phrases of the source are  *)
(* written as one ASCII token each; PhraseLen is their length in            *)
(* characters in the source.                                                *)

PhraseLen ==
  [t \in {"Loading", "loading", "<jiazaizhong>", "<qingshaohou>", "<zhengzaijiazai>",
          "load more", "skeleton",
          "<yulanshibiaoqianbukedian>", "<weixinsaoyisao>",
          "<guanzhugaigongzhonghao>", "Scan QR Code",
          "<gaineirongyibeifabuzheshanchu>", "<lianjieyiguoqi>",
          "<cineirongyinweiguiwufachakan>"} |->
     CASE t = "Loading" -> 7
       [] t = "loading" -> 7
       [] t = "<jiazaizhong>" -> 3
       [] t = "<qingshaohou>" -> 3
       [] t = "<zhengzaijiazai>" -> 4
       [] t = "load more" -> 9
       [] t = "skeleton" -> 8
       [] t = "<yulanshibiaoqianbukedian>" -> 8
       [] t = "<weixinsaoyisao>" -> 5
       [] t = "<guanzhugaigongzhonghao>" -> 6
       [] t = "Scan QR Code" -> 12
       [] t = "<gaineirongyibeifabuzheshanchu>" -> 10
       [] t = "<lianjieyiguoqi>" -> 5
       [] t = "<cineirongyinweiguiwufachakan>" -> 10]

\* the number of characters a token stands for
TokLen(t) == IF t \in DOMAIN PhraseLen THEN PhraseLen[t] ELSE 1

RECURSIVE SumRange(_, _, _)
SumRange(f, lo, hi) ==
  IF lo > hi THEN 0
  ELSE IF lo = hi THEN f[lo]
  ELSE LET mid == (lo + hi) \div 2
       IN SumRange(f, lo, mid) + SumRange(f, mid + 1, hi)

\* String.prototype.length
TextLen(s) == SumRange([i \in 1..Len(s) |-> TokLen(s[i])], 1, Len(s))

\* String.prototype.indexOf(phrase), 1-based; 0 when the phrase does not occur
IndexOf(s, phrase) ==
  LET hits == {i \in 1..(Len(s) - Len(phrase) + 1) :
                 SubSeq(s, i, i + Len(phrase) - 1) = phrase}
  IN IF hits = {} THEN 0 ELSE CHOOSE i \in hits : \A j \in hits : i <= j

Includes(s, phrase) == IndexOf(s, phrase) # 0

\* String.prototype.toLowerCase on the tokens the model uses
ToLowerTok(t) ==
  CASE t = "Loading" -> "loading"
    [] t = "Skeleton" -> "skeleton"
    [] OTHER -> t

ToLower(s) == [i \in 1..Len(s) |-> ToLowerTok(s[i])]

\* .replace(/\s+/g, '')
StripSpace(s) == Pick(s, [i \in 1..Len(s) |-> ~IsSpace(s[i])])

----------------------------------------------------------------------------
(* SyncService.htmlToMarkdown: the clean-up applied to Turndown's output *)

footerMarkers ==
  << <<"<yulanshibiaoqianbukedian>">>, <<"<weixinsaoyisao>">>,
     <<"<guanzhugaigongzhonghao>">>, <<"Scan QR Code">> >>

\* for (const marker of footerMarkers) { indexOf ...; substring(0, idx); break }
RECURSIVE CutFooter(_, _)
CutFooter(markdown, k) ==
  IF k > Len(footerMarkers) THEN markdown
  ELSE LET footerIndex == IndexOf(markdown, footerMarkers[k])
       IN IF footerIndex # 0 THEN SubSeq(markdown, 1, footerIndex - 1)
          ELSE CutFooter(markdown, k + 1)

\* .split('\n')
RECURSIVE SplitLines(_)
SplitLines(s) ==
  LET nl == IndexOf(s, <<"\n">>)
  IN IF nl = 0 THEN <<s>>
     ELSE <<SubSeq(s, 1, nl - 1)>> \o SplitLines(Drop(s, nl))

\* .split('\n').map(line => line.trimEnd()).join('\n')
TrimLines(s) ==
  LET ls == SplitLines(s)
  IN Join([i \in 1..Len(ls) |-> TrimEnd(ls[i])], <<"\n">>)

DigitChars == {"0", "1", "2", "3", "4", "5", "6", "7", "8", "9"}

LineTerms == {"\n", "\r"}

IsLineTerm(c) == c \in LineTerms

\* the end of the run of tokens that "." matches (no line terminator) from i
LineEnd(s, i) ==
  CHOOSE e \in i..(Len(s) + 1) :
    /\ \A x \in i..(e - 1) : s[x] \notin LineTerms
    /\ (e = Len(s) + 1 \/ s[e] \in LineTerms)

\* ([-*]|\d+\.) at position i: the position after the marker, 0 when none
MarkerEnd(s, i) ==
  IF i > Len(s) THEN 0
  ELSE IF s[i] \in {"-", "*"} THEN i + 1
  ELSE LET d == RunEnd(s, i, DigitChars)
       IN IF d > i /\ d <= Len(s) /\ s[d] = "." THEN d + 1 ELSE 0

\* ^([-*]|\d+\.)\s+ at position i (flag m): a list item starts here
ListItemAt(s, i) ==
  /\ (i = 1 \/ (i > 1 /\ i <= Len(s) + 1 /\ IsLineTerm(s[i - 1])))
  /\ LET j == MarkerEnd(s, i) IN j # 0 /\ j <= Len(s) /\ IsSpace(s[j])

\* One match of /^([-*]|\d+\.)\s+(.+?)\n\n(?=^([-*]|\d+\.)\s+)/gm at position
\* i: <<j, k, m>> with the marker in [i, j), \s+ in [j, k), (.+?) in [k, m)
\* and \n\n at m, m+1; <<>> when the pattern does not match at i.  The
\* lines have no trailing whitespace here (TrimLines ran), so \s+ takes the
\* whole whitespace run and backtracking into it finds no other match.
ListMatch(s, i) ==
  IF ~ListItemAt(s, i) THEN <<>>
  ELSE LET j == MarkerEnd(s, i)
           k == RunEnd(s, j, SpaceChars)
           m == LineEnd(s, k)
       IN IF /\ m > k
             /\ m + 1 <= Len(s) /\ s[m] = "\n" /\ s[m + 1] = "\n"
             /\ ListItemAt(s, m + 2)
          THEN <<j, k, m>> ELSE <<>>

\* .replace(<the list pattern>, '$1 $2\n') from position i on: the leftmost
\* match at or after i is replaced and the scan goes on behind it
RECURSIVE TightenLists(_, _)
TightenLists(s, i) ==
  LET starts == {c \in i..Len(s) : ListMatch(s, c) # <<>>}
  IN IF starts = {} THEN SubSeq(s, i, Len(s))
     ELSE LET c == CHOOSE x \in starts : \A y \in starts : x <= y
              mt == ListMatch(s, c)
          IN SubSeq(s, i, mt[1] - 1) \o <<" ">> \o SubSeq(s, mt[2], mt[3] - 1)
               \o <<"\n">> \o TightenLists(s, mt[3] + 2)

\* .replace(/ {2,}/g, ' ')
CollapseBlanks(s) ==
  Pick(s, [i \in 1..Len(s) |-> ~(s[i] = " " /\ i > 1 /\ s[i - 1] = " ")])

\* Faulty variant: runs of newlines are left as they are.
CollapseNewlinesOff(s) == s

\* .replace(/\n{3,}/g, '\n\n')
CollapseNewlines(s) ==
  Pick(s, [i \in 1..Len(s) |->
             ~(s[i] = "\n" /\ i > 2 /\ s[i - 1] = "\n" /\ s[i - 2] = "\n")])

CleanMarkdown(markdown) ==
  Trim(CollapseNewlines(CollapseBlanks(TightenLists(TrimLines(markdown), 1))))

\* A page is [html, td, throws]: the response text, what
\* turndownService.turndown(doc.body.innerHTML) returns for it, and whether
\* parsing or Turndown raises (the catch returns '').
htmlToMarkdown(page) ==
  IF page.throws THEN <<>> ELSE CleanMarkdown(CutFooter(page.td, 1))

----------------------------------------------------------------------------
(* PinboxBookmark (pinboxApi.ts).  An absent or empty string field is <<>>; *)
(* an absent (null or undefined) number field is NoNum.  A tag is either a  *)
(* bare string or a {name} record.                                          *)

NoNum == 0 - 1

StrTag(name) == [isRecord |-> FALSE, name |-> name]

RecTag(name) == [isRecord |-> TRUE, name |-> name]

Bk(id, title, url) ==
  [id |-> id, title |-> title, url |-> url, description |-> <<>>, tags |-> <<>>,
   created_at |-> <<"2024-01-01">>, item_type |-> <<>>, brief |-> <<>>,
   note |-> <<>>, thumbnail |-> <<>>, cover |-> <<>>,
   collection_id |-> NoNum, view |-> NoNum]

----------------------------------------------------------------------------
(* SyncService.generateMarkdownContent *)

\* bookmark.tags.map(tag => typeof tag === 'string' ? tag : tag.name || '').filter(t => t)
TagNames(tags) ==
  SelectSeq([i \in 1..Len(tags) |-> tags[i].name], LAMBDA name : name # <<>>)

UnavailableNotice ==
  << <<"> (!) cannot fetch the page content automatically. Possible reasons:">>,
     <<"> - the page needs JavaScript to load its content">>,
     <<"> - the page loads too slowly">>,
     <<"> - the page needs a login or special permission">>,
     <<"> - the page link is no longer valid">>,
     <<">">>,
     <<"> open the url link of the metadata to see the full content.">> >>

\* new Date().toISOString()
IsoTime(t) == <<"T">> \o NumStr(t)

FrontmatterLines(bookmark, now) ==
  LET tags == TagNames(bookmark.tags)
      imageUrl == IF bookmark.thumbnail # <<>> THEN bookmark.thumbnail ELSE bookmark.cover
  IN << <<"---">>,
        <<"id: ">> \o NumStr(bookmark.id),
        <<"title: ", "\"">>
          \o EscapeQuotes(IF bookmark.title # <<>> THEN bookmark.title ELSE <<"Untitled">>)
          \o <<"\"">>,
        <<"url: ", "\"">> \o bookmark.url \o <<"\"">>,
        <<"item_type: ">>
          \o (IF bookmark.item_type # <<>> THEN bookmark.item_type ELSE <<"unknown">>),
        <<"created_at: ">> \o bookmark.created_at >>
     \o (IF tags # <<>>
         THEN << <<"tags:">> >> \o [i \in 1..Len(tags) |-> <<"  - ">> \o tags[i]]
         ELSE <<>>)
     \o (IF bookmark.collection_id # NoNum
         THEN << <<"collection_id: ">> \o NumStr(bookmark.collection_id) >> ELSE <<>>)
     \o (IF bookmark.view # NoNum
         THEN << <<"view: ">> \o NumStr(bookmark.view) >> ELSE <<>>)
     \o (IF bookmark.brief # <<>>
         THEN << <<"brief: ", "\"">>
                   \o NewlinesToSpaces(EscapeQuotes(bookmark.brief)) \o <<"\"">> >>
         ELSE <<>>)
     \o (IF bookmark.description # <<>>
         THEN << <<"description: ", "\"">>
                   \o NewlinesToSpaces(EscapeQuotes(bookmark.description)) \o <<"\"">> >>
         ELSE <<>>)
     \o (IF imageUrl # <<>> THEN << <<"image: ", "\"">> \o imageUrl \o <<"\"">> >> ELSE <<>>)
     \o << <<"synced_at: ">> \o IsoTime(now), <<"---">>, <<>> >>

\* Faulty variant of the note body: the notice, whatever was fetched.
ContentLinesNoticeOnly(bookmark, webContent) == UnavailableNotice

\* Faulty variant of the note body: the notice whenever there is no content,
\* with or without a url.
ContentLinesNoticeWithoutUrl(bookmark, webContent) ==
  (IF bookmark.note # <<>> THEN << <<"## note">>, <<>>, bookmark.note, <<>> >> ELSE <<>>)
  \o (IF webContent # Null /\ Len(webContent) > 0 THEN <<webContent>>
      ELSE UnavailableNotice)

\* webContent is Null or a text
ContentLines(bookmark, webContent) ==
  (IF bookmark.note # <<>> THEN << <<"## note">>, <<>>, bookmark.note, <<>> >> ELSE <<>>)
  \o (IF webContent # Null /\ Len(webContent) > 0 THEN <<webContent>>
      ELSE IF bookmark.url # <<>> THEN UnavailableNotice
      ELSE <<>>)

generateMarkdownContent(bookmark, webContent, now) ==
  Join(FrontmatterLines(bookmark, now) \o ContentLines(bookmark, webContent), <<"\n">>)

\* createOrUpdateBookmark: the note's path
\* normalizePath(`${this.syncFolder}/${fileName}.md`); the file name holds no
\* slash, so normalizePath leaves the path of a normalized folder as it is
NotePath(syncFolder, bookmark) ==
  syncFolder \o <<"/">>
    \o sanitizeFileName(IF bookmark.title # <<>> THEN bookmark.title ELSE NumStr(bookmark.id))
    \o <<".md">>

----------------------------------------------------------------------------
(* The remote service and the target web sites: the values the model draws  *)
(* its inputs from.                                                         *)

TitleExample == <<"E", "x", "a", "m", "p", "l", "e", " ", "S", "i", "t", "e">>

UrlExample == <<"https://", "example.com">>

UrlWechat == <<"http://", "mp.weixin.qq.com", "/s/abc">>

\* the bookmark of the end-to-end scenario
bExample ==
  [Bk(42, TitleExample, UrlExample) EXCEPT
     !.tags = <<StrTag(<<"news">>), RecTag(<<"tech">>)>>, !.collection_id = 5]

\* the same bookmark after its tags and description were edited on the service
bExampleEdited ==
  [bExample EXCEPT !.tags = <<RecTag(<<"edited">>), RecTag(<<>>), StrTag(<<"x">>)>>,
                   !.description = <<"n", "e", "w">>]

\* no url; its title sanitizes to A-B
bSlash ==
  [Bk(7, <<"A", "/", "B">>, <<>>) EXCEPT
     !.note = <<"m", "y", " ", "n", "o", "t", "e">>,
     !.brief = <<"a", "\"", "b", "\n", "c">>, !.view = 3]

\* its title is A-B already
bDash == Bk(8, <<"A", "-", "B">>, <<"https://", "b.example">>)

\* no title: the file is named from the id
bNoTitle == [Bk(9, <<>>, UrlWechat) EXCEPT !.thumbnail = <<"https://", "img.example", "/t.png">>]

\* the same title as bExample
bDup == Bk(10, TitleExample, <<"https://", "dup.example">>)

\* item i of a large collection: no url, and one title for all of them
bBulk(cid, i) == Bk(1000 * cid + i, <<"B", "u", "l", "k">>, <<>>)

Bulk(cid, n) == [i \in 1..n |-> bBulk(cid, i)]

Collection(id) == [id |-> id, name |-> id]

\* a remote state: the listed collections (the default collection 0 is never
\* listed) and the items of every collection
Remote(listed, items0, items5, items6) ==
  [listed |-> [i \in 1..Len(listed) |-> Collection(listed[i])],
   items |-> (0 :> items0) @@ (5 :> items5) @@ (6 :> items6)]

\* the remote states of the sync passes
SyncRemotes ==
  { Remote(<<>>, <<>>, <<>>, <<>>),
    Remote(<<5>>, <<>>, <<bExample>>, <<>>),
    Remote(<<5>>, <<>>, <<bExampleEdited>>, <<>>),
    Remote(<<5, 6>>, <<bNoTitle>>, <<bExample, bSlash>>, <<bDash, bDup>>),
    Remote(<<5>>, Bulk(0, pageSize + 1), <<bDash>>, <<>>) }

\* the collection sizes of the pagination: none, one item, one full page, one
\* item more than a page, four full pages
ApiSizes == {0, 1, pageSize, pageSize + 1, 4 * pageSize}

\* the remote states of the direct getAllBookmarks calls
ApiRemotes ==
  { Remote(listed, Bulk(0, n), <<bExample, bSlash>>, Bulk(6, pageSize + 1)) :
      listed \in {<<>>, <<5, 6>>, <<6, 5>>}, n \in ApiSizes }

\* Web pages.  td is Turndown's output for the page.
HelloMd == <<"#", " ", "H", "e", "l", "l", "o", "\n", "\n", "W", "o", "r", "l", "d">>

LongMd == [i \in 1..(MinContentLength + 20) |-> IF i % 10 = 0 THEN " " ELSE "x"]

Page(html, td) == [html |-> html, td |-> td, throws |-> FALSE]

PageHello == Page(<<"<h1>", "Hello", "</h1>", "<p>", "World", "</p>">>, HelloMd)

PageLong == Page(<<"<p>", "long", "</p>">>, LongMd)

PageLoading == Page(<<"<div>", "Loading", "</div>">>, <<"Loading", ".", ".", ".", " ", "\n">>)

\* 40 characters of text with the placeholder phrase at the end
PageWaiting ==
  Page(<<"<div>", "<jiazaizhong>", "</div>">>,
       [i \in 1..37 |-> "x"] \o <<"<jiazaizhong>">>)

PageBlank == Page(<<" ", "\n", "\t">>, <<>>)

PageEmpty == Page(<<>>, <<>>)

PageDeleted == Page(<<"<p>", "<gaineirongyibeifabuzheshanchu>", "</p>">>, HelloMd)

PageFooter ==
  Page(<<"<p>", "Hello", "</p>", "<footer>">>,
       <<"\n", "\n">> \o HelloMd \o <<" ", " ", "\n", "\n", "\n", "<weixinsaoyisao>", "x">>)

PageBroken == [html |-> <<"<">>, td |-> <<>>, throws |-> TRUE]

Pages ==
  {PageHello, PageLong, PageLoading, PageWaiting, PageBlank, PageEmpty, PageDeleted,
   PageFooter, PageBroken}

\* what requestUrl({..., throw: false}) gives: a response, or a network exception
Throw == [kind |-> "throw", status |-> 0, page |-> PageEmpty]

Http(status, page) == [kind |-> "http", status |-> status, page |-> page]

\* the answers of a web site to a direct call of fetchWebContent
Responses ==
  {Throw} \cup {Http(st, PageEmpty) : st \in {403, 404, 408, 429, 500, 503}}
          \cup {Http(200, pg) : pg \in Pages}

\* the answers of the web sites during the sync passes
SyncResponses ==
  {Throw, Http(503, PageEmpty), Http(404, PageEmpty), Http(200, PageHello),
   Http(200, PageLoading)}

\* the urls of the direct calls of fetchWebContent
FetchUrls == {UrlExample, UrlWechat}

----------------------------------------------------------------------------
(* SyncService.fetchWebContent: one iteration of the retry loop *)

\* url.startsWith('http://mp.weixin.qq.com') -> url.replace('http://', 'https://')
\* Faulty variant of the WeChat test: no url is a WeChat article.
isWechatArticleNever(url) == FALSE

UpgradeUrl(url) ==
  IF Len(url) >= 2 /\ url[1] = "http://" /\ url[2] = "mp.weixin.qq.com"
  THEN <<"https://">> \o Tail(url) ELSE url

isWechatArticle(url) == Includes(url, <<"mp.weixin.qq.com">>)

loadingIndicators ==
  << <<"loading", ".", ".", ".">>, <<"loading">>,
     <<"<jiazaizhong>", ".", ".", ".">>, <<"<jiazaizhong>">>,
     <<"<qingshaohou>", ".", ".", ".">>, <<"<zhengzaijiazai>">>,
     <<"load more">>, <<"skeleton">> >>

wechatErrorPhrases ==
  << <<"<gaineirongyibeifabuzheshanchu>">>, <<"<lianjieyiguoqi>">>,
     <<"<cineirongyinweiguiwufachakan>">> >>

IncludesAny(s, phrases) == \E i \in 1..Len(phrases) : Includes(s, phrases[i])

\* Faulty variants of the retry decisions: a backoff that does not grow, a
\* loop that never gives up, a placeholder backoff without its 2000 ms, an
\* empty-body test that never holds, and a placeholder test that takes every
\* short page.  The properties of the retry loop fail on them.
BackoffFlat(attempt) == 1000

PlaceholderBackoffShort(attempt) == attempt * 1000

IsEmptyBodyNever(html) == FALSE

IsPlaceholderAnyShort(markdown) == TextLen(StripSpace(markdown)) < MinContentLength

MayRetryForever(attempt) == TRUE

\* Faulty variant: every status is worth another attempt.
RetryableStatusAny(status) == TRUE

\* response.status >= 500 || response.status === 429 || response.status === 408
RetryableStatus(status) == status >= 500 \/ status = 429 \/ status = 408

\* const delay = attempt * 1000
Backoff(attempt) == attempt * 1000

\* const delay = 2000 + (attempt * 1000)
PlaceholderBackoff(attempt) == 2000 + (attempt * 1000)

Retry(delay) == [kind |-> "retry", delay |-> delay, value |-> Null]

Return(value) == [kind |-> "return", delay |-> 0, value |-> value]

\* attempt < retries
MayRetry(attempt) == attempt < retries

\* !html || html.trim().length === 0
IsEmptyBody(html) == Trim(html) = <<>>

\* contentLength < 100 and loadingIndicators.some(i => markdownLower.includes(i))
IsPlaceholder(markdown) ==
  /\ TextLen(StripSpace(markdown)) < MinContentLength
  /\ IncludesAny(Trim(ToLower(markdown)), loadingIndicators)

\* the loop body from the conversion on
AfterConversion(markdown, attempt) ==
  IF IsPlaceholder(markdown)
  THEN IF MayRetry(attempt) THEN Retry(PlaceholderBackoff(attempt)) ELSE Return(Null)
  ELSE Return(markdown)

\* the body of the for loop for one response (or exception) of requestUrl:
\* sleep and go round again, or return a value (Null or the Markdown)
FetchAttempt(url, attempt, resp) ==
  IF resp.kind = "throw"
  THEN IF MayRetry(attempt) THEN Retry(Backoff(attempt)) ELSE Return(Null)
  ELSE IF resp.status # 200
  THEN IF RetryableStatus(resp.status) /\ MayRetry(attempt)
       THEN Retry(Backoff(attempt)) ELSE Return(Null)
  ELSE IF IsEmptyBody(resp.page.html) THEN Return(Null)
  ELSE IF isWechatArticle(url) /\ IncludesAny(resp.page.html, wechatErrorPhrases)
  THEN Return(Null)
  ELSE AfterConversion(htmlToMarkdown(resp.page), attempt)

----------------------------------------------------------------------------
(* PinboxAPI: the server's answer to one page request, and the pagination   *)
(* decisions of getAllCollectionItems                                       *)

\* Faulty variants of the pagination: pages that overlap by one item, a total
\* that follows the latest page, a loop that runs while offset <= total, and
\* an aggregation that rethrows every collection's error.
ServerPageOverlap(r, cid, count, offset) ==
  [items |-> SubSeq(r.items[cid], IF offset = 0 THEN 1 ELSE offset,
                    Min(offset + count, Len(r.items[cid]))),
   total |-> Len(r.items[cid])]

PageTotalLatest(total, respTotal) == respTotal

MorePagesInclusive(offset, total) == offset <= total

RethrowEveryError(ci) == TRUE

\* GET .../collection/<cid>/item?count=<count>&offset=<offset>
ServerPage(r, cid, count, offset) ==
  [items |-> SubSeq(r.items[cid], offset + 1, Min(offset + count, Len(r.items[cid]))),
   total |-> Len(r.items[cid])]

\* const total = firstPage.total (NoNum: the first page has not come yet)
PageTotal(total, respTotal) == IF total = NoNum THEN respTotal ELSE total

\* while (offset < total)
MorePages(offset, total) == offset < total

\* getAllBookmarks: the default collection's error is rethrown, a listed
\* collection's error is caught in the loop
RethrowCollectionError(ci) == ci = 0

----------------------------------------------------------------------------
(* The operations.  A task is one running operation: a sync pass            *)
(* (SyncService.sync), a direct call of PinboxAPI.getAllBookmarks, or a     *)
(* direct call of SyncService.fetchWebContent.                              *)

Passes == 1..MaxPasses

SyncFolder == <<"Pinbox">>

IdleTask ==
  [top |-> "none", pc |-> "idle", error |-> "none",
   \* getAllBookmarks
   collections |-> <<>>, ci |-> 0, allBookmarks |-> <<>>,
   \* getAllCollectionItems
   allItems |-> <<>>, offset |-> 0, total |-> NoNum,
   \* sync
   bookmarks |-> <<>>, syncedCount |-> 0, newCount |-> 0, skippedCount |-> 0,
   ret |-> NoNum,
   \* createOrUpdateBookmark and fetchWebContent
   filePath |-> <<>>, url |-> <<>>, webContent |-> Null, attempt |-> 0, delay |-> 0,
   \* observations: the page requests sent, the collections finished, the
   \* collections whose error was swallowed, the result of each bookmark, the
   \* vault and the remote change count when the operation started; for a
   \* direct call of fetchWebContent, the responses it got and its sleeps
   reqLog |-> <<>>, colLog |-> <<>>, swallowed |-> <<>>, results |-> <<>>,
   vault0 |-> <<>>, changes0 |-> 0, trace |-> <<>>, waits |-> <<>>,
   \* deleteCurrentItem: the id read from the note, the notices shown, and the
   \* folders and the remote state when the operation started
   itemId |-> <<>>, notices |-> <<>>, folders0 |-> {}, remote0 |-> <<>>,
   \* sync: what fetchWebContent returned for each bookmark that got a result,
   \* and the positions of the bookmarks whose materialization raised
   fetched |-> <<>>, raised |-> <<>>,
   \* a direct call of getCollections, getCollectionItems or deleteItem: the
   \* operation, the token it ran with, the status its error carries and the
   \* value it returned
   op |-> "none", token |-> <<>>, status |-> 0, returned |-> "none",
   \* sync: for each bookmark that got a result, whether fetchWebContent was
   \* called for it
   asked |-> <<>>,
   \* downloadImagesInContent: the generated note text (Null before it is
   \* generated), the number of the next match, the replacements collected, and
   \* for each match what downloadImage did
   content |-> Null, matchIdx |-> 0, replacements |-> <<>>, imgLog |-> <<>>]

Running(t) == t.pc \notin {"idle", "done", "failed"}

\* Faulty variant: the error is noted and the operation returns as if there
\* had been nothing to do.
FailReturnsNothing(t, why) == [t EXCEPT !.pc = "done", !.error = why, !.ret = 0]

Fail(t, why) == [t EXCEPT !.pc = "failed", !.error = why]

\* new Notice(text); EndWith: the operation returns after it
Notify(t, text) == [t EXCEPT !.notices = Append(@, text)]

EndWith(t, text) == [Notify(t, text) EXCEPT !.pc = "done"]

CurrentCid(t) == IF t.ci = 0 THEN 0 ELSE t.collections[t.ci].id

\* for (const bookmark of bookmarks): the bookmark of the current round
CurrentBookmark(t) == t.bookmarks[t.syncedCount + 1]

\* getAllBookmarks has returned list to its caller
AfterBookmarks(t, list) ==
  IF t.top = "api" THEN [t EXCEPT !.pc = "done", !.bookmarks = list, !.ret = Len(list)]
  ELSE IF Len(list) = 0 THEN [t EXCEPT !.pc = "done", !.bookmarks = list, !.ret = 0]
  ELSE [t EXCEPT !.pc = "check", !.bookmarks = list]

\* Faulty variant: the pages fetched from a collection before one of its
\* requests failed are kept.
NextCollectionKeepsFetched(t) ==
  LET kept == IF t.colLog # <<>> /\ ~t.colLog[Len(t.colLog)].ok
              THEN t.allBookmarks \o t.allItems ELSE t.allBookmarks
  IN IF t.ci < Len(t.collections)
     THEN [t EXCEPT !.ci = @ + 1, !.allItems = <<>>, !.offset = 0, !.total = NoNum,
                    !.allBookmarks = kept, !.pc = "page"]
     ELSE AfterBookmarks([t EXCEPT !.allItems = <<>>, !.offset = 0, !.total = NoNum,
                                   !.allBookmarks = kept],
                         kept)

\* getAllBookmarks: on to the next listed collection, or return
NextCollection(t) ==
  IF t.ci < Len(t.collections)
  THEN [t EXCEPT !.ci = @ + 1, !.allItems = <<>>, !.offset = 0, !.total = NoNum,
                 !.pc = "page"]
  ELSE AfterBookmarks([t EXCEPT !.allItems = <<>>, !.offset = 0, !.total = NoNum],
                      t.allBookmarks)

\* Faulty variant of the end of the loop: the pass returns the number of
\* notes it created.
AfterBookmarkReturnsNew(t, result) ==
  LET t1 == [t EXCEPT !.syncedCount = @ + 1,
                      !.newCount = IF result = "created" THEN @ + 1 ELSE @,
                      !.skippedCount = IF result = "skipped" THEN @ + 1 ELSE @,
                      !.filePath = <<>>, !.url = <<>>, !.webContent = Null,
                      !.attempt = 0,
                      !.results = Append(@, [id |-> t.bookmarks[t.syncedCount + 1].id,
                                             result |-> result]),
                      !.fetched = Append(@, t.webContent),
                      !.asked = Append(@, t.attempt > 0),
                      !.content = Null, !.matchIdx = 0, !.replacements = <<>>]
  IN IF t1.syncedCount < Len(t1.bookmarks) THEN [t1 EXCEPT !.pc = "check"]
     ELSE [t1 EXCEPT !.pc = "done", !.ret = t1.newCount]

\* sync: one bookmark is done with result; on to the next one, or return
AfterBookmark(t, result) ==
  LET t1 == [t EXCEPT !.syncedCount = @ + 1,
                      !.newCount = IF result = "created" THEN @ + 1 ELSE @,
                      !.skippedCount = IF result = "skipped" THEN @ + 1 ELSE @,
                      !.filePath = <<>>, !.url = <<>>, !.webContent = Null,
                      !.attempt = 0,
                      !.results = Append(@, [id |-> t.bookmarks[t.syncedCount + 1].id,
                                             result |-> result]),
                      !.fetched = Append(@, t.webContent),
                      !.asked = Append(@, t.attempt > 0),
                      !.content = Null, !.matchIdx = 0, !.replacements = <<>>]
  IN IF t1.syncedCount < Len(t1.bookmarks) THEN [t1 EXCEPT !.pc = "check"]
     ELSE [t1 EXCEPT !.pc = "done", !.ret = t1.syncedCount]

\* Faulty variant of the error path of the loop: the error of one bookmark is
\* swallowed and the pass goes on.
AfterCreateErrorSwallowed(t) ==
  AfterBookmark([t EXCEPT !.raised = Append(@, t.syncedCount + 1)], "skipped")

\* sync: createOrUpdateBookmark raised; the catch of sync shows a notice and
\* rethrows
AfterCreateError(t) == Fail([t EXCEPT !.raised = Append(@, t.syncedCount + 1)], "create")

\* Faulty variant of the return of fetchWebContent: a sync pass fails when no
\* content was fetched.
AfterFetchNullFails(t, value) ==
  IF t.top = "fetch" THEN [t EXCEPT !.pc = "done", !.webContent = value]
  ELSE IF value = Null THEN Fail([t EXCEPT !.webContent = value], "fetch")
  ELSE [t EXCEPT !.pc = "write", !.webContent = value]

\* Faulty variant of the return of fetchWebContent: a sync pass does not wait
\* for the note to be written; it counts the bookmark and starts the next one.
AfterFetchMovesOn(t, value) ==
  IF t.top = "fetch" THEN [t EXCEPT !.pc = "done", !.webContent = value]
  ELSE AfterBookmark([t EXCEPT !.webContent = value], "created")

\* fetchWebContent returns value to its caller
AfterFetch(t, value) ==
  IF t.top = "fetch" THEN [t EXCEPT !.pc = "done", !.webContent = value]
  ELSE [t EXCEPT !.pc = "write", !.webContent = value]

\* the observations of a direct call of fetchWebContent
Observed(t, resp, step) ==
  IF t.top = "fetch"
  THEN [t EXCEPT !.trace = Append(@, resp),
                 !.waits = IF step.kind = "retry" THEN Append(@, step.delay) ELSE @]
  ELSE t

----------------------------------------------------------------------------
(* Actions *)

Env == <<remote, remoteChanges, clock, svc>>

\* a new operation of the given kind starts as task p; operations are
\* numbered in the order they start, and none starts while another runs
Start(p, t) ==
  /\ task[p].pc = "idle"
  /\ \A q \in Passes : q < p => task[q].pc # "idle"
  /\ \A q \in Passes : ~Running(task[q])
  /\ task' = [task EXCEPT ![p] = [t EXCEPT !.vault0 = vault, !.changes0 = remoteChanges]]
  /\ UNCHANGED <<Env, vault, folders>>

\* SyncService.sync is called
StartSync(p) == Start(p, [IdleTask EXCEPT !.top = "sync", !.pc = "ensure"])

\* PinboxAPI.getAllBookmarks is called
StartGetAllBookmarks(p) == Start(p, [IdleTask EXCEPT !.top = "api", !.pc = "collections"])

\* SyncService.fetchWebContent(url) is called
StartFetch(p, url) ==
  Start(p, [IdleTask EXCEPT !.top = "fetch", !.pc = "fetch", !.url = UpgradeUrl(url),
                            !.attempt = 1])

\* error.message.includes('Folder already exists'): the error is ignored
IgnoredFolderError(message) == message = "Folder already exists"

\* sync: await this.ensureFolderExists(this.syncFolder)
EnsureSyncFolder(p) ==
  /\ task[p].pc = "ensure"
  /\ IF svc.syncFolder \in folders
     THEN /\ task' = [task EXCEPT ![p].pc = "collections"]
          /\ UNCHANGED folders
     ELSE \E outcome \in {"created", "Folder already exists", "EACCES"} :
            IF outcome = "created" \/ IgnoredFolderError(outcome)
            THEN /\ folders' = folders \cup {svc.syncFolder}
                 /\ task' = [task EXCEPT ![p].pc = "collections"]
            ELSE /\ task' = [task EXCEPT ![p] = Fail(Notify(@, outcome), "folder")]
                 /\ UNCHANGED folders
  /\ UNCHANGED <<Env, vault>>

\* getAllBookmarks: const collections = await this.getCollections()
GetCollections(p) ==
  /\ task[p].pc = "collections"
  /\ \E outcome \in {"list", "not an array", "error"} :
       task' = [task EXCEPT ![p] =
         IF outcome = "error" THEN Fail(@, "collections")
         ELSE [@ EXCEPT !.collections = IF outcome = "list" THEN remote.listed ELSE <<>>,
                        !.ci = 0, !.allItems = <<>>, !.offset = 0, !.total = NoNum,
                        !.pc = "page"]]
  /\ UNCHANGED <<Env, vault, folders>>

\* getAllCollectionItems: one await this.getCollectionItems(collectionId, pageSize, offset)
GetPage(p) ==
  /\ task[p].pc = "page"
  /\ LET t == task[p]
         cid == CurrentCid(t)
     IN \E outcome \in {"ok", "error"} :
          IF outcome = "ok"
          THEN LET page == ServerPage(remote, cid, pageSize, t.offset)
                   allItems == t.allItems \o page.items
                   total == PageTotal(t.total, page.total)
                   offset == t.offset + pageSize
                   t1 == [t EXCEPT !.reqLog = Append(@, [cid |-> cid, offset |-> t.offset,
                                                         items_count |-> page.total])]
               IN task' = [task EXCEPT ![p] =
                    IF MorePages(offset, total)
                    THEN [t1 EXCEPT !.allItems = allItems, !.total = total,
                                    !.offset = offset]
                    ELSE NextCollection(
                           [t1 EXCEPT !.allBookmarks = @ \o allItems,
                                      !.colLog = Append(@, [cid |-> cid, ok |-> TRUE,
                                                            items |-> Len(allItems)])])]
          ELSE LET t2 == [t EXCEPT !.reqLog = Append(@, [cid |-> cid, offset |-> t.offset,
                                                         items_count |-> NoNum]),
                                   !.colLog = Append(@, [cid |-> cid, ok |-> FALSE,
                                                         items |-> 0])]
               IN task' = [task EXCEPT ![p] =
                    IF RethrowCollectionError(t.ci) THEN Fail(t2, "default collection")
                    ELSE NextCollection([t2 EXCEPT !.swallowed = Append(@, cid)])]
  /\ UNCHANGED <<Env, vault, folders>>

\* Faulty variants of the existence test: no file counts as existing, and only
\* an empty file counts as existing.
NoteNeverExists(files, filePath) == FALSE

NoteExistsIfEmpty(files, filePath) == filePath \in DOMAIN files /\ files[filePath] = <<>>

\* this.app.vault.getAbstractFileByPath(filePath) instanceof TFile
NoteExists(files, filePath) == filePath \in DOMAIN files

\* createOrUpdateBookmark up to its first await: skip an existing note, or
\* start the content fetch, or go on to write a note without fetched content
CheckExisting(p) ==
  /\ task[p].pc = "check"
  /\ LET t == task[p]
         bookmark == t.bookmarks[t.syncedCount + 1]
         filePath == NotePath(svc.syncFolder, bookmark)
     IN task' = [task EXCEPT ![p] =
          IF NoteExists(vault, filePath) THEN AfterBookmark(t, "skipped")
          ELSE IF bookmark.url # <<>>
          THEN [t EXCEPT !.filePath = filePath, !.url = UpgradeUrl(bookmark.url),
                         !.attempt = 1, !.pc = "fetch"]
          ELSE [t EXCEPT !.filePath = filePath, !.pc = "write"]]
  /\ UNCHANGED <<Env, vault, folders>>

\* fetchWebContent: the answer to await requestUrl(...) of the current
\* attempt, one of responses
FetchResponse(p, responses) ==
  /\ task[p].pc = "fetch"
  /\ \E resp \in responses :
       \E step \in {FetchAttempt(task[p].url, task[p].attempt, resp)} :
         task' = [task EXCEPT ![p] =
           IF step.kind = "retry"
           THEN [Observed(@, resp, step) EXCEPT !.pc = "sleep", !.delay = step.delay]
           ELSE AfterFetch(Observed(@, resp, step), step.value)]
  /\ UNCHANGED <<Env, vault, folders>>

\* fetchWebContent: the setTimeout of the backoff fires; continue with attempt++
Wake(p) ==
  /\ task[p].pc = "sleep"
  /\ task' = [task EXCEPT ![p].pc = "fetch", ![p].attempt = @ + 1, ![p].delay = 0]
  /\ UNCHANGED <<Env, vault, folders>>

\* createOrUpdateBookmark after the fetch: generate the note and
\* await this.app.vault.create(filePath, content), which raises when the
\* file exists or the file system refuses
WriteNote(p) ==
  /\ task[p].pc = "write"
  /\ svc.downloadImages => task[p].content # Null
  /\ LET t == task[p]
         bookmark == t.bookmarks[t.syncedCount + 1]
     IN \E outcome \in {"created", "EIO"} :
          IF outcome = "created" /\ t.filePath \notin DOMAIN vault
          THEN /\ vault' = vault @@
                     (t.filePath :> IF t.content # Null THEN t.content
                                    ELSE generateMarkdownContent(bookmark, t.webContent, clock))
               /\ task' = [task EXCEPT ![p] = AfterBookmark(t, "created")]
          ELSE /\ task' = [task EXCEPT ![p] =
                      AfterCreateError(Notify(t, IF outcome = "created"
                                                 THEN "File already exists" ELSE outcome))]
               /\ UNCHANGED vault
  /\ UNCHANGED <<Env, folders>>

\* Faulty variant: syncBookmarks starts no pass while another one is running.
StartOverlappingGuarded(p) == StartSync(p)

\* SyncService.sync is called by the timer or by the user, whether or not
\* another pass is running: syncBookmarks has no guard
StartOverlapping(p) ==
  /\ task[p].pc = "idle"
  /\ \A q \in Passes : q < p => task[q].pc # "idle"
  /\ task' = [task EXCEPT ![p] =
       [IdleTask EXCEPT !.top = "sync", !.pc = "ensure", !.vault0 = vault,
                        !.changes0 = remoteChanges]]
  /\ UNCHANGED <<Env, vault, folders>>

\* createOrUpdateBookmark up to the path of the note, for a bookmark of the
\* given id and title
DeriveNotePath(p, id, title) ==
  /\ task[p].pc = "idle"
  /\ task' = [task EXCEPT ![p] =
       [IdleTask EXCEPT !.top = "name", !.pc = "done",
                        !.bookmarks = <<Bk(id, title, <<>>)>>,
                        !.filePath = NotePath(svc.syncFolder, Bk(id, title, <<>>))]]
  /\ UNCHANGED <<Env, vault, folders>>

\* htmlToMarkdown(html) is called for a page
ConvertPage(p, page) ==
  /\ task[p].pc = "idle"
  /\ task' = [task EXCEPT ![p] =
       [IdleTask EXCEPT !.top = "markdown", !.pc = "done", !.trace = <<page>>,
                        !.webContent = htmlToMarkdown(page)]]
  /\ UNCHANGED <<Env, vault, folders>>

\* no operation runs, one has ended and another one is still to start
Between ==
  /\ \A p \in Passes : ~Running(task[p])
  /\ \E p \in Passes : task[p].pc \in {"done", "failed"}
  /\ \E p \in Passes : task[p].pc = "idle"

\* the wall clock advances between two operations
Tick ==
  /\ clock < MaxClock
  /\ Between
  /\ clock' = clock + 1
  /\ UNCHANGED <<remote, remoteChanges, svc, vault, folders, task>>

\* The bookmarks on the service change between two operations (another
\* client edits them): the remote state becomes another one of remotes.
RemoteChange(remotes) ==
  /\ remoteChanges < MaxRemoteChanges
  /\ Between
  /\ remote' \in remotes \ {remote}
  /\ remoteChanges' = remoteChanges + 1
  /\ UNCHANGED <<clock, svc, vault, folders, task>>

\* The collection that task p is reading page by page gets n items (another
\* client adds or removes bookmarks while the pages are fetched).
ResizeCollection(p, sizes) ==
  /\ remoteChanges < MaxRemoteChanges
  /\ task[p].pc = "page"
  /\ \E n \in sizes :
       LET cid == CurrentCid(task[p])
       IN /\ n # Len(remote.items[cid])
          /\ remote' = [remote EXCEPT !.items[cid] = Bulk(cid, n)]
  /\ remoteChanges' = remoteChanges + 1
  /\ UNCHANGED <<clock, svc, vault, folders, task>>

----------------------------------------------------------------------------
(* PinboxSyncerPlugin.deleteCurrentItem, PinboxAPI.deleteItem and            *)
(* PinboxSyncerPlugin.deleteImageFolder                                      *)

\* Faulty variants of the deletion: every answer of the service counts as a
\* success, and the image folder's path lacks its slash.
DeleteSucceededAlways(status) == TRUE

ImageFolderPathNoSlash(imageFolder, itemId) == imageFolder \o itemId

\* content.match(/^id:\s*(\d+)/m): the digits of the first line that starts
\* with "id:", white space and at least one digit; <<>> when there is none
IdStarts(content) ==
  {i \in 1..Len(content) :
     /\ content[i] \in {"id:", "id: "}
     /\ (i = 1 \/ content[i - 1] \in LineTerms)
     /\ LET d == RunEnd(content, i + 1, SpaceChars)
        IN d <= Len(content) /\ content[d] \in DigitChars}

IdMatch(content) ==
  IF IdStarts(content) = {} THEN <<>>
  ELSE LET i == CHOOSE x \in IdStarts(content) : \A y \in IdStarts(content) : x <= y
           d == RunEnd(content, i + 1, SpaceChars)
       IN SubSeq(content, d, RunEnd(content, d, DigitChars) - 1)

\* getUserId: the token has three parts separated by dots and its payload
\* names the user; otherwise 'Unable to extract user ID from token' is thrown
GoodToken == <<"header", ".", "{aud:u1}", ".", "signature">>

BadToken == <<"not-a-jwt">>

TokenParts(token) == Len(SelectSeq(token, LAMBDA c : c = ".")) + 1

\* this.accessToken.split('.')
RECURSIVE SplitDots(_)
SplitDots(token) ==
  IF \A i \in 1..Len(token) : token[i] # "." THEN <<token>>
  ELSE LET i == CHOOSE x \in 1..Len(token) :
                  token[x] = "." /\ \A y \in 1..(x - 1) : token[y] # "."
       IN <<SubSeq(token, 1, i - 1)>> \o SplitDots(SubSeq(token, i + 1, Len(token)))

\* JSON.parse(atob(part)): the payload that the part encodes, with its aud
\* field (Null when it has none), or an exception
DecodePayload(part) ==
  IF part = <<"{aud:u1}">> THEN [ok |-> TRUE, aud |-> <<"u1">>]
  ELSE IF part = <<"{aud:u2}">> THEN [ok |-> TRUE, aud |-> <<"u2">>]
  ELSE IF part = <<"{aud:}">> THEN [ok |-> TRUE, aud |-> <<>>]
  ELSE IF part = <<"{sub:u1}">> THEN [ok |-> TRUE, aud |-> Null]
  ELSE [ok |-> FALSE, aud |-> Null]

\* extractUserIdFromToken: the user id, or Null
extractUserIdFromToken(token) ==
  IF token = <<>> THEN Null
  ELSE LET parts == SplitDots(token)
       IN IF Len(parts) # 3 THEN Null
          ELSE LET payload == DecodePayload(parts[2])
               IN IF payload.ok /\ payload.aud # Null /\ payload.aud # <<>>
                  THEN payload.aud
                  ELSE Null

getUserIdThrows(token) == extractUserIdFromToken(token) = Null

\* getUserId: this.userId when it is set, else the id in the token; Null
\* stands for the exception
getUserId(s) ==
  IF s.userId # Null THEN s.userId ELSE extractUserIdFromToken(s.accessToken)

\* Faulty variant: the cached user id survives a change of the token.
setAccessTokenKeepsUserId(s, token) == [s EXCEPT !.accessToken = token]

\* setAccessToken: this.accessToken = token; this.userId = null
setAccessToken(s, token) == [s EXCEPT !.accessToken = token, !.userId = Null]

\* Faulty variant: every 2xx status is taken for a list.
ListSucceededNoContent(status) == status \in {200, 204}

\* getCollections and getCollectionItems: response.status === 200
ListSucceeded(status) == status = 200

\* deleteItem: response.status === 200 || response.status === 204
DeleteSucceeded(status) == status \in {200, 204}

\* normalizePath on a path of the model: no slash at either end, no run of
\* slashes
RECURSIVE SquashSlashes(_)
SquashSlashes(path) ==
  IF Len(path) < 2 THEN path
  ELSE IF path[1] = "/" /\ path[2] = "/" THEN SquashSlashes(Tail(path))
  ELSE <<path[1]>> \o SquashSlashes(Tail(path))

normalizePath(path) ==
  LET q == SquashSlashes(path)
      b == IF q # <<>> /\ q[1] = "/" THEN 2 ELSE 1
      e == IF q # <<>> /\ q[Len(q)] = "/" THEN Len(q) - 1 ELSE Len(q)
  IN SubSeq(q, b, e)

\* deleteImageFolder: normalizePath(`${this.settings.imageFolder}/${itemId}`)
ImageFolderPath(imageFolder, itemId) == normalizePath(imageFolder \o <<"/">> \o itemId)

\* path is folder or lies below it
Below(path, folder) ==
  /\ Len(path) >= Len(folder)
  /\ SubSeq(path, 1, Len(folder)) = folder
  /\ (Len(path) = Len(folder) \/ path[Len(folder) + 1] = "/")

\* the vault without the files below folder
WithoutFolder(files, folder) ==
  [path \in {q \in DOMAIN files : ~Below(q, folder)} |-> files[path]]

\* the vault without one file
WithoutFile(files, path) == [q \in DOMAIN files \ {path} |-> files[q]]

\* the service without the item of the given id
WithoutItem(r, itemId) ==
  [r EXCEPT !.items =
     [cid \in DOMAIN r.items |->
        SelectSeq(r.items[cid], LAMBDA b : NumStr(b.id) # itemId)]]

\* the answers of the service to the DELETE request: the item is deleted and
\* the answer says so; the item is kept and the answer is a failure status;
\* the request raises before it reaches the service; the item is deleted but
\* the answer is lost and the request raises
DeleteAnswers ==
  {[kind |-> "http", status |-> st, deleted |-> TRUE] : st \in {200, 204}}
    \cup {[kind |-> "http", status |-> st, deleted |-> FALSE] : st \in {401, 404, 500}}
    \cup {[kind |-> "throw", status |-> NoNum, deleted |-> d] : d \in BOOLEAN}

\* deleteCurrentItem(file) up to its first await: no file, not logged in, or
\* the file is gone
StartDelete(p, file) ==
  /\ task[p].pc = "idle"
  /\ \A q \in Passes : q < p => task[q].pc # "idle"
  /\ \A q \in Passes : ~Running(task[q])
  /\ LET t == [IdleTask EXCEPT !.top = "delete", !.filePath = file, !.vault0 = vault,
                               !.folders0 = folders, !.remote0 = remote,
                               !.changes0 = remoteChanges]
     IN task' = [task EXCEPT ![p] =
          IF file = Null THEN EndWith(t, "no file selected")
          ELSE IF svc.accessToken = <<>> THEN EndWith(t, "log in first")
          ELSE IF file \notin DOMAIN vault THEN EndWith(t, "file does not exist")
          ELSE [t EXCEPT !.pc = "read"]]
  /\ UNCHANGED <<Env, vault, folders>>

\* const content = await this.app.vault.read(file) and the search for the id
ReadNote(p) ==
  /\ task[p].pc = "read"
  /\ \E outcome \in {"read", "EIO"}, itemId \in {IdMatch(vault[task[p].filePath])} :
       task' = [task EXCEPT ![p] =
         IF outcome = "EIO" THEN EndWith(@, "delete failed: EIO")
         ELSE IF itemId = <<>> THEN EndWith(@, "no item id in this file")
         ELSE [@ EXCEPT !.itemId = itemId, !.pc = "confirm"]]
  /\ UNCHANGED <<Env, vault, folders>>

\* Faulty variant: the answer to the confirmation dialog decides only whether
\* the "deleting" notice is shown.
ConfirmIgnored(p) ==
  /\ task[p].pc = "confirm"
  /\ \E confirmed \in BOOLEAN :
       task' = [task EXCEPT ![p] =
         IF getUserIdThrows(svc.accessToken)
         THEN EndWith(Notify(@, "deleting"), "delete failed: no user id")
         ELSE IF confirmed THEN [Notify(@, "deleting") EXCEPT !.pc = "remote"]
         ELSE [@ EXCEPT !.pc = "remote"]]
  /\ UNCHANGED <<Env, vault, folders>>

\* the user answers the confirmation dialog; on "delete" deleteItem starts and
\* runs up to its request, which getUserId may prevent by throwing
Confirm(p) ==
  /\ task[p].pc = "confirm"
  /\ \E confirmed \in BOOLEAN :
       task' = [task EXCEPT ![p] =
         IF ~confirmed THEN [@ EXCEPT !.pc = "done"]
         ELSE IF getUserIdThrows(svc.accessToken)
         THEN EndWith(Notify(@, "deleting"), "delete failed: no user id")
         ELSE [Notify(@, "deleting") EXCEPT !.pc = "remote"]]
  /\ UNCHANGED <<Env, vault, folders>>

\* const success = await this.api.deleteItem(itemId)
DeleteRequest(p) ==
  /\ task[p].pc = "remote"
  /\ \E answer \in DeleteAnswers :
       /\ remote' = IF answer.deleted THEN WithoutItem(remote, task[p].itemId) ELSE remote
       /\ task' = [task EXCEPT ![p] =
            IF answer.kind = "throw"
            THEN EndWith([@ EXCEPT !.trace = Append(@, answer)], "delete failed: request")
            ELSE IF DeleteSucceeded(answer.status)
            THEN [Notify([@ EXCEPT !.trace = Append(@, answer)], "deleted from Pinbox")
                    EXCEPT !.pc = "trash"]
            ELSE EndWith([@ EXCEPT !.trace = Append(@, answer)], "Pinbox delete failed")]
  /\ UNCHANGED <<remoteChanges, clock, svc, vault, folders>>

\* Faulty variant: an error of trashFile is caught on the spot and the
\* deletion goes on to the image folder.
TrashNoteGoesOn(p) ==
  /\ task[p].pc = "trash"
  /\ \E outcome \in {"trashed", "EIO"} :
       /\ vault' = IF outcome = "trashed" THEN WithoutFile(vault, task[p].filePath) ELSE vault
       /\ task' = [task EXCEPT ![p] =
            IF /\ svc.downloadImages
               /\ ImageFolderPath(svc.imageFolder, @.itemId) \in folders
            THEN [Notify(@, "local note deleted") EXCEPT !.pc = "images"]
            ELSE EndWith(@, "local note deleted")]
  /\ UNCHANGED <<Env, folders>>

\* await this.app.fileManager.trashFile(file), and deleteImageFolder up to its
\* own trashFile when images are downloaded and the folder is there
TrashNote(p) ==
  /\ task[p].pc = "trash"
  /\ \E outcome \in {"trashed", "EIO"} :
       IF outcome = "trashed"
       THEN /\ vault' = WithoutFile(vault, task[p].filePath)
            /\ task' = [task EXCEPT ![p] =
                 IF /\ svc.downloadImages
                    /\ ImageFolderPath(svc.imageFolder, @.itemId) \in folders
                 THEN [Notify(@, "local note deleted") EXCEPT !.pc = "images"]
                 ELSE EndWith(@, "local note deleted")]
       ELSE /\ task' = [task EXCEPT ![p] = EndWith(@, "delete failed: EIO")]
            /\ UNCHANGED vault
  /\ UNCHANGED <<Env, folders>>

\* deleteImageFolder: await this.app.fileManager.trashFile(imageFolder); an
\* error is logged and not raised
TrashImages(p) ==
  /\ task[p].pc = "images"
  /\ \E outcome \in {"trashed", "EIO"} :
       LET folder == ImageFolderPath(svc.imageFolder, task[p].itemId)
       IN IF outcome = "trashed"
          THEN /\ folders' = {f \in folders : ~Below(f, folder)}
               /\ vault' = WithoutFolder(vault, folder)
               /\ task' = [task EXCEPT ![p].pc = "done"]
          ELSE /\ task' = [task EXCEPT ![p].pc = "done", ![p].error = "image folder"]
               /\ UNCHANGED <<vault, folders>>
  /\ UNCHANGED Env

----------------------------------------------------------------------------
(* Spec: sync passes, one after the other, against a small remote state *)

\* a note the user already has in the sync folder, at the path of bExample
UserNote == NotePath(SyncFolder, bExample) :> <<"m", "y", " ", "e", "d", "i", "t", "s">>

InitEnv ==
  /\ remoteChanges = 0
  /\ clock = 0
  /\ svc = [syncFolder |-> SyncFolder, downloadImages |-> FALSE, imageFolder |-> <<"pics">>]
  /\ task = [p \in Passes |-> IdleTask]

Init ==
  /\ InitEnv
  /\ remote \in SyncRemotes
  /\ vault \in {<<>>, UserNote}
  /\ folders = IF vault = <<>> THEN {} ELSE {SyncFolder}

Next ==
  \/ \E p \in Passes :
       \/ StartSync(p)
       \/ EnsureSyncFolder(p)
       \/ GetCollections(p)
       \/ GetPage(p)
       \/ CheckExisting(p)
       \/ FetchResponse(p, SyncResponses)
       \/ Wake(p)
       \/ WriteNote(p)
  \/ Tick
  \/ RemoteChange(SyncRemotes)

Spec == Init /\ [][Next]_vars

----------------------------------------------------------------------------
(* SpecApi: one direct call of PinboxAPI.getAllBookmarks against            *)
(* collections of up to four pages, which may change while they are read    *)

InitApi ==
  /\ InitEnv
  /\ remote \in ApiRemotes
  /\ vault = <<>>
  /\ folders = {}

NextApi ==
  \/ StartGetAllBookmarks(1)
  \/ GetCollections(1)
  \/ GetPage(1)
  \/ ResizeCollection(1, ApiSizes)

SpecApi == InitApi /\ [][NextApi]_vars

----------------------------------------------------------------------------
(* SpecFetch: one direct call of SyncService.fetchWebContent, every         *)
(* response sequence                                                        *)

InitFetch ==
  /\ InitEnv
  /\ remote = Remote(<<>>, <<>>, <<>>, <<>>)
  /\ vault = <<>>
  /\ folders = {}

NextFetch ==
  \/ \E url \in FetchUrls : StartFetch(1, url)
  \/ FetchResponse(1, Responses)
  \/ Wake(1)

SpecFetch == InitFetch /\ [][NextFetch]_vars

----------------------------------------------------------------------------
(* SpecDelete: deletions of the bookmark of a note, one after the other      *)

Pics == <<"pics">>

\* the notes of two synced bookmarks, with the content the sync gave them
SyncedNotes ==
  (NotePath(SyncFolder, bExample) :> generateMarkdownContent(bExample, HelloMd, 0))
    @@ (NotePath(SyncFolder, bSlash) :> generateMarkdownContent(bSlash, Null, 0))

\* a note of the user's own, without an id line
OwnNotePath == SyncFolder \o <<"/", "mine", ".md">>

OwnNote == OwnNotePath :> <<"m", "y", " ", "n", "o", "t", "e", "\n", "x", "id: ", "7">>

\* the images downloaded for the two bookmarks
ImageFiles ==
  (Pics \o <<"/", "4", "2", "/", "1.png">> :> <<"png">>)
    @@ (Pics \o <<"/", "7", "/", "2.png">> :> <<"png">>)

ImageFolders == {Pics, Pics \o <<"/", "4", "2">>, Pics \o <<"/", "7">>}

\* the files deleteCurrentItem is called with: none, the three notes, and a
\* file that is not in the vault
DeleteFiles ==
  {Null, NotePath(SyncFolder, bExample), NotePath(SyncFolder, bSlash), OwnNotePath,
   SyncFolder \o <<"/", "gone", ".md">>}

InitDelete ==
  /\ remoteChanges = 0
  /\ clock = 0
  /\ \E token \in {<<>>, BadToken, GoodToken}, images \in BOOLEAN,
        imageFolder \in {Pics, Pics \o <<"/">>} :
       svc = [syncFolder |-> SyncFolder, downloadImages |-> images,
              imageFolder |-> imageFolder, accessToken |-> token]
  /\ task = [p \in Passes |-> IdleTask]
  /\ remote = Remote(<<5>>, <<>>, <<bExample, bSlash>>, <<>>)
  /\ \E withImages \in BOOLEAN :
       /\ vault = IF withImages THEN SyncedNotes @@ OwnNote @@ ImageFiles
                  ELSE SyncedNotes @@ OwnNote
       /\ folders = IF withImages THEN {SyncFolder} \cup ImageFolders ELSE {SyncFolder}

NextDelete ==
  \E p \in Passes :
    \/ \E file \in DeleteFiles : StartDelete(p, file)
    \/ ReadNote(p)
    \/ Confirm(p)
    \/ DeleteRequest(p)
    \/ TrashNote(p)
    \/ TrashImages(p)

SpecDelete == InitDelete /\ [][NextDelete]_vars

----------------------------------------------------------------------------
(* SpecOverlap: two sync passes over the same remote state that may run at   *)
(* the same time                                                            *)

\* bookmarks with a url: createOrUpdateBookmark awaits the content fetch
\* between its test for an existing note and the creation of the note
OverlapRemotes ==
  { Remote(<<5>>, <<>>, <<bExample>>, <<>>),
    Remote(<<>>, <<bNoTitle, bExample>>, <<>>, <<>>) }

OverlapResponses == {Http(503, PageEmpty), Http(404, PageEmpty), Http(200, PageHello)}

InitOverlap ==
  /\ InitEnv
  /\ remote \in OverlapRemotes
  /\ vault = <<>>
  /\ folders = {}

NextOverlap ==
  \E p \in Passes :
    \/ StartOverlapping(p)
    \/ EnsureSyncFolder(p)
    \/ GetCollections(p)
    \/ GetPage(p)
    \/ CheckExisting(p)
    \/ FetchResponse(p, OverlapResponses)
    \/ Wake(p)
    \/ WriteNote(p)

SpecOverlap == InitOverlap /\ [][NextOverlap]_vars

----------------------------------------------------------------------------
(* SpecName: the file name createOrUpdateBookmark derives from a title       *)

TitleChars == {"a", " ", "\t", "/", "\\", "|"}

MaxTitleLen == 3

Repeat(c, n) == [i \in 1..n |-> c]

\* every title of up to MaxTitleLen characters over TitleChars
ShortTitles == UNION {[1..n -> TitleChars] : n \in 0..MaxTitleLen}

\* titles around the length limit, and the title with every invalid character
LongTitles ==
  { Repeat("a", MaxFileNameLength - 1), Repeat("a", MaxFileNameLength),
    Repeat("a", MaxFileNameLength + 1), Repeat(" ", MaxFileNameLength + 50),
    Repeat("a", MaxFileNameLength - 2) \o <<" ", "\n", "b", "c", "d">>,
    Repeat("/", MaxFileNameLength + 1),
    <<" ", " ">> \o Repeat("a", MaxFileNameLength) \o <<" ">>,
    <<"A", "/", "B", ":", "C", "*", "D", "?", "\"", "E", "<", "F", ">", "G", "|", "H">> }

NameIds == {7, 42, 100}

InitName ==
  /\ InitEnv
  /\ remote = Remote(<<>>, <<>>, <<>>, <<>>)
  /\ vault = <<>>
  /\ folders = {}

NextName ==
  \E id \in NameIds, title \in ShortTitles \cup LongTitles : DeriveNotePath(1, id, title)

SpecName == InitName /\ [][NextName]_vars

----------------------------------------------------------------------------
(* SpecMarkdown: one call of SyncService.htmlToMarkdown, for every Turndown  *)
(* output of a bounded set                                                  *)

MarkerTokens == {footerMarkers[k][1] : k \in 1..Len(footerMarkers)}

MaxFooterLen == 4

MaxBlankLen == 5

\* texts with footer markers in every combination and order
FooterTexts ==
  UNION {[1..n -> MarkerTokens \cup {"a", "\n"}] : n \in 0..MaxFooterLen}

\* texts with blanks, line breaks and list markers
BlankTexts == UNION {[1..n -> {"a", " ", "\n", "\r", "-"}] : n \in 0..MaxBlankLen}

\* two loose list items, blank lines around and between, blanks at line ends
ListTexts ==
  { <<"\n", " ", "\n", "-", " ", " ", "a", " ", "\n", "\n", "-", " ", "b", "\t", "\n", "\n",
      "\n", "\n", "c", " ", " ", "d", " ", "\n", " ", "\n">>,
    <<"1", ".", " ", "a", "\n", "\n", "2", ".", " ", "b", "\n", "\n", "\n", "*", " ", "c",
      "\n", "\n", "\n", "<weixinsaoyisao>", "\n", "x">> }

MarkdownPages ==
  {Page(<<"<p>">>, td) : td \in FooterTexts \cup BlankTexts \cup ListTexts} \cup {PageBroken}

InitMarkdown ==
  /\ InitEnv
  /\ remote = Remote(<<>>, <<>>, <<>>, <<>>)
  /\ vault = <<>>
  /\ folders = {}

NextMarkdown == \E page \in MarkdownPages : ConvertPage(1, page)

SpecMarkdown == InitMarkdown /\ [][NextMarkdown]_vars

----------------------------------------------------------------------------
(* SpecCalls: direct calls of the three bookmark operations of PinboxAPI,   *)
(* one after the other, with changes of the token in between                *)

----------------------------------------------------------------------------
(* SyncService.downloadImagesInContent and downloadImage.  A Markdown image  *)
(* reference ![alt](url) is one token of the text; ImageRefs gives, for each *)
(* reference the model uses, what the code reads from it.                    *)

RefPng == "![a](https://img.example/p.png)"

RefPng2 == "![b](https://img.example/q.png)"

RefWx == "![c](https://mmbiz.qpic.cn/pic?wx_fmt=gif)"

RefHttp == "![d](http://img.example/raw)"

RefLocal == "![e](pics/local.png)"

\* match[2] of the reference, whether it starts with http:// or https://, and
\* the extension downloadImage derives from it (wx_fmt, or the extension of
\* the last path segment, or jpg)
ImageRefs ==
  (RefPng :> [url |-> <<"https://", "img.example", "/p.png">>, http |-> TRUE, ext |-> "png"])
  @@ (RefPng2 :> [url |-> <<"https://", "img.example", "/q.png">>, http |-> TRUE, ext |-> "png"])
  @@ (RefWx :> [url |-> <<"https://", "mmbiz.qpic.cn", "/pic?wx_fmt=gif">>, http |-> TRUE,
                ext |-> "gif"])
  @@ (RefHttp :> [url |-> <<"http://", "img.example", "/raw">>, http |-> TRUE, ext |-> "jpg"])
  @@ (RefLocal :> [url |-> <<"pics/local.png">>, http |-> FALSE, ext |-> "png"])

\* the matches of /!\[([^\]]*)\]\(([^)]+)\)/g in content, in order
Matches(content) == SelectSeq(content, LAMBDA c : c \in DOMAIN ImageRefs)

\* what a GET of the image url returns
ImageBytes(ref) == <<"bytes of">> \o ImageRefs[ref].url

\* `${timestamp}.${extension}`
ImageFileName(now, ext) == NumStr(now) \o <<".", ext>>

\* `![[${fileName}]]`
Embed(fileName) == <<"![[">> \o fileName \o <<"]]">>

\* normalizePath(`${bookmarkImageFolder}/${fileName}`)
ImageFilePath(folder, now, ext) == normalizePath(folder \o <<"/">> \o ImageFileName(now, ext))

\* Faulty variant: a failed download gives the path all the same.
DownloadFailedPathKept(path) == path

\* downloadImage: catch (error) { return null }
DownloadFailed(path) == Null

\* downloadImage(imageUrl, bookmarkId) for the match ref, at time now:
\* the folder of the bookmark's images is ensured, with folderOutcome when it
\* has to be created; a file that is already at the path is returned without
\* a request; otherwise the image is requested and written, with outcome.
\* path is the path returned (Null for null), name its last segment.
downloadImage(files, dirs, imageFolder, bookmarkId, ref, now, folderOutcome, outcome) ==
  LET folder == ImageFolderPath(imageFolder, NumStr(bookmarkId))
      filePath == ImageFilePath(folder, now, ImageRefs[ref].ext)
      name == SubSeq(filePath, Len(folder) + 2, Len(filePath))
      mkdir == folder \notin dirs
      dirs1 == IF mkdir /\ (folderOutcome = "created" \/ IgnoredFolderError(folderOutcome))
               THEN dirs \cup {folder} ELSE dirs
  IN IF mkdir /\ folder \notin dirs1
     THEN [path |-> DownloadFailed(filePath), name |-> name, files |-> files, dirs |-> dirs,
           requested |-> FALSE, why |-> "folder: " \o folderOutcome]
     ELSE IF filePath \in DOMAIN files
     THEN [path |-> filePath, name |-> name, files |-> files, dirs |-> dirs1,
           requested |-> FALSE, why |-> "exists"]
     ELSE IF outcome = "saved"
     THEN [path |-> filePath, name |-> name, files |-> files @@ (filePath :> ImageBytes(ref)),
           dirs |-> dirs1, requested |-> TRUE, why |-> "saved"]
     ELSE [path |-> DownloadFailed(filePath), name |-> name, files |-> files, dirs |-> dirs1,
           requested |-> TRUE, why |-> outcome]

\* Faulty variant: the replacement is not applied.
ReplaceNothing(content, original, replacement) == content

\* updatedContent.replace(original, replacement): the first occurrence
ReplaceFirst(content, original, replacement) ==
  LET i == IndexOf(content, <<original>>)
  IN IF i = 0 THEN content
     ELSE SubSeq(content, 1, i - 1) \o replacement \o SubSeq(content, i + 1, Len(content))

\* for (const { original, replacement } of replacements) ...
RECURSIVE ApplyReplacements(_, _, _)
ApplyReplacements(content, replacements, k) ==
  IF k > Len(replacements) THEN content
  ELSE ApplyReplacements(ReplaceFirst(content, replacements[k].original,
                                      replacements[k].replacement),
                         replacements, k + 1)

\* createOrUpdateBookmark: let content = this.generateMarkdownContent(...), and
\* downloadImagesInContent up to its loop
GenerateContent(p) ==
  /\ task[p].pc = "write"
  /\ svc.downloadImages
  /\ task[p].content = Null
  /\ \E content \in {generateMarkdownContent(CurrentBookmark(task[p]), task[p].webContent, clock)} :
       task' = [task EXCEPT ![p] =
         [@ EXCEPT !.content = content, !.matchIdx = 1, !.replacements = <<>>,
                   !.pc = "image"]]
  /\ UNCHANGED <<Env, vault, folders>>

\* one round of the while loop: the next match is skipped, or downloadImage
\* is awaited for it
DownloadNextImage(p) ==
  /\ task[p].pc = "image"
  /\ task[p].matchIdx <= Len(Matches(task[p].content))
  /\ \E ref \in {Matches(task[p].content)[task[p].matchIdx]} :
       IF ~ImageRefs[ref].http
       THEN /\ task' = [task EXCEPT ![p] =
                 [@ EXCEPT !.matchIdx = @ + 1,
                           !.imgLog = Append(@, [ref |-> ref, why |-> "not http",
                                                 requested |-> FALSE, name |-> <<>>,
                                                 rewritten |-> FALSE])]]
            /\ UNCHANGED <<clock, vault, folders>>
       ELSE \E now \in {clock, Min(clock + 1, MaxClock)},
               folderOutcome \in {"created", "Folder already exists", "EACCES"},
               outcome \in {"saved", "request failed", "EIO"} :
              \E r \in {downloadImage(vault, folders, svc.imageFolder,
                                      CurrentBookmark(task[p]).id, ref, now,
                                      folderOutcome, outcome)} :
                /\ clock' = now
                /\ vault' = r.files
                /\ folders' = r.dirs
                /\ task' = [task EXCEPT ![p] =
                     [@ EXCEPT !.matchIdx = @ + 1,
                               !.replacements =
                                  IF r.path # Null
                                  THEN Append(@, [original |-> ref,
                                                  replacement |-> Embed(r.name)])
                                  ELSE @,
                               !.imgLog = Append(@, [ref |-> ref, why |-> r.why,
                                                     requested |-> r.requested,
                                                     name |-> r.name,
                                                     rewritten |-> r.path # Null])]]
  /\ UNCHANGED <<remote, remoteChanges, svc>>

\* the loop has ended: the replacements are applied and the text returned
FinishImages(p) ==
  /\ task[p].pc = "image"
  /\ task[p].matchIdx > Len(Matches(task[p].content))
  /\ task' = [task EXCEPT ![p] =
       [@ EXCEPT !.content = ApplyReplacements(@, task[p].replacements, 1), !.pc = "write"]]
  /\ UNCHANGED <<Env, vault, folders>>

\* One call of getCollections, getCollectionItems or deleteItem, answered by
\* resp: getUserId, the request, and the test of the status.
ApiCall(p, op, resp) ==
  /\ ~Running(task[p])
  /\ \E userId \in {getUserId(svc)} :
       /\ svc' = [svc EXCEPT !.userId = userId]
       /\ \E t \in {[IdleTask EXCEPT !.top = "call", !.op = op,
                                     !.token = svc.accessToken]} :
            task' = [task EXCEPT ![p] =
              IF userId = Null THEN Fail(t, "Unable to extract user ID from token")
              ELSE LET sent == [t EXCEPT !.reqLog = <<[op |-> op, userId |-> userId,
                                                       authorization |-> svc.accessToken]>>,
                                         !.trace = <<resp>>]
                   IN IF resp.kind = "throw" THEN Fail(sent, "request")
                      ELSE IF op = "deleteItem"
                      THEN [sent EXCEPT !.pc = "done",
                                        !.returned = IF DeleteSucceeded(resp.status)
                                                     THEN "true" ELSE "false"]
                      ELSE IF ListSucceeded(resp.status)
                      THEN [sent EXCEPT !.pc = "done", !.returned = "list"]
                      ELSE [Fail(sent, "Failed to fetch") EXCEPT !.status = resp.status]]
  /\ UNCHANGED <<remote, remoteChanges, clock, vault, folders>>

\* the plugin hands a new token to the client between two calls
SetAccessToken(token) ==
  /\ \A p \in Passes : ~Running(task[p])
  /\ token # svc.accessToken
  /\ svc' = setAccessToken(svc, token)
  /\ UNCHANGED <<remote, remoteChanges, clock, vault, folders, task>>

CallTokens ==
  {<<>>, BadToken, GoodToken,
   <<"header", ".", "{aud:u2}", ".", "signature">>,
   <<"header", ".", "{aud:u1}">>,
   <<"header", ".", "{aud:u1}", ".", "signature", ".", "more">>,
   <<"header", ".", "%%%", ".", "signature">>,
   <<"header", ".", "{sub:u1}", ".", "signature">>,
   <<"header", ".", "{aud:}", ".", "signature">>}

CallOps == {"getCollections", "getCollectionItems", "deleteItem"}

CallResponses == {Throw} \cup {Http(st, PageEmpty) : st \in {200, 204, 401, 404, 500}}

InitCalls ==
  /\ remoteChanges = 0
  /\ clock = 0
  /\ \E token \in CallTokens :
       svc = [syncFolder |-> SyncFolder, downloadImages |-> FALSE,
              imageFolder |-> <<"pics">>, accessToken |-> token, userId |-> Null]
  /\ task = [p \in Passes |-> IdleTask]
  /\ remote = Remote(<<>>, <<>>, <<>>, <<>>)
  /\ vault = <<>>
  /\ folders = {}

NextCalls ==
  \/ \E op \in CallOps, resp \in CallResponses : ApiCall(1, op, resp)
  \/ \E token \in CallTokens : SetAccessToken(token)

SpecCalls == InitCalls /\ [][NextCalls]_vars

----------------------------------------------------------------------------
(* SpecSettings: sync passes one after the other, and the user editing the  *)
(* settings between them.  svc.settings is the plugin's settings object,    *)
(* the other fields of svc are the fields of the SyncService.               *)

\* saveSettings: saveData, then setDownloadImages and setImageFolder
saveSettings(s) ==
  [s EXCEPT !.downloadImages = s.settings.downloadImages,
            !.imageFolder = s.settings.imageFolder]

\* the sync-folder text field changes: settings.syncFolder = value, saveSettings
ChangeSyncFolder(value) ==
  /\ \A p \in Passes : ~Running(task[p])
  /\ value # svc.settings.syncFolder
  /\ svc' = saveSettings([svc EXCEPT !.settings.syncFolder = value])
  /\ UNCHANGED <<remote, remoteChanges, clock, vault, folders, task>>

\* the image-folder text field changes: settings.imageFolder = value, saveSettings
ChangeImageFolder(value) ==
  /\ \A p \in Passes : ~Running(task[p])
  /\ value # svc.settings.imageFolder
  /\ svc' = saveSettings([svc EXCEPT !.settings.imageFolder = value])
  /\ UNCHANGED <<remote, remoteChanges, clock, vault, folders, task>>

SettingsFolders == {SyncFolder, <<"Inbox">>}

SettingsImageFolders == {<<"pics">>, <<"img">>}

SettingsRemotes ==
  { Remote(<<5>>, <<>>, <<bExample>>, <<>>),
    Remote(<<>>, <<bSlash>>, <<>>, <<>>) }

SettingsResponses == {Http(503, PageEmpty), Http(404, PageEmpty), Http(200, PageHello)}

\* onload: the SyncService is built from the loaded settings
InitSettings ==
  /\ remoteChanges = 0
  /\ clock = 0
  /\ svc = [syncFolder |-> SyncFolder, downloadImages |-> FALSE, imageFolder |-> <<"pics">>,
            settings |-> [syncFolder |-> SyncFolder, downloadImages |-> FALSE,
                          imageFolder |-> <<"pics">>]]
  /\ task = [p \in Passes |-> IdleTask]
  /\ remote \in SettingsRemotes
  /\ vault = <<>>
  /\ folders = {}

NextSettings ==
  \/ \E p \in Passes :
       \/ StartSync(p)
       \/ EnsureSyncFolder(p)
       \/ GetCollections(p)
       \/ GetPage(p)
       \/ CheckExisting(p)
       \/ FetchResponse(p, SettingsResponses)
       \/ Wake(p)
       \/ WriteNote(p)
  \/ \E value \in SettingsFolders : ChangeSyncFolder(value)
  \/ \E value \in SettingsImageFolders : ChangeImageFolder(value)

SpecSettings == InitSettings /\ [][NextSettings]_vars

----------------------------------------------------------------------------
(* SpecImages: sync passes over one bookmark whose page holds image          *)
(* references, with the download of images switched on or off               *)

\* Turndown outputs with image references: two different images of the same
\* extension, the same reference twice, a local reference in front of a remote
\* one, three formats, and no image
ImageTexts ==
  { <<"x", " ", RefPng, "\n", "\n", RefPng2>>,
    <<RefPng, " ", "o", "r", " ", RefPng>>,
    <<RefLocal, " ", RefHttp>>,
    <<RefWx, RefHttp, RefPng>>,
    <<"n", "o", "n", "e">> }

ImagePages == {Page(<<"<img>">>, td) : td \in ImageTexts}

ImageResponses == {Http(404, PageEmpty)} \cup {Http(200, page) : page \in ImagePages}

InitImages ==
  /\ remoteChanges = 0
  /\ clock = 0
  /\ \E images \in BOOLEAN :
       svc = [syncFolder |-> SyncFolder, downloadImages |-> images, imageFolder |-> <<"pics">>]
  /\ task = [p \in Passes |-> IdleTask]
  /\ remote = Remote(<<>>, <<bExample>>, <<>>, <<>>)
  /\ vault = <<>>
  /\ folders = {}

NextImages ==
  \E p \in Passes :
    \/ StartSync(p)
    \/ EnsureSyncFolder(p)
    \/ GetCollections(p)
    \/ GetPage(p)
    \/ CheckExisting(p)
    \/ FetchResponse(p, ImageResponses)
    \/ GenerateContent(p)
    \/ DownloadNextImage(p)
    \/ FinishImages(p)
    \/ WriteNote(p)

SpecImages == InitImages /\ [][NextImages]_vars

----------------------------------------------------------------------------
(* SpecPlugin: one plugin object from its load to its unload, the settings  *)
(* tab's auto-sync controls, and the interval timers of the window.  svc is *)
(* the plugin object: settings is its settings object, data the settings    *)
(* stored by saveData, syncInterval the handle of its timer, timers the     *)
(* live interval timers of the window, pending the handlers that are at     *)
(* their await of saveSettings.                                             *)

MaxTimers == 4          \* calls of window.setInterval in one behaviour
MaxPending == 2         \* handlers waiting for saveSettings at one time
MaxLoads == 2           \* loads of the plugin in one behaviour

PluginSettings(firstRun, autoSync, syncInterval) ==
  [firstRun |-> firstRun, autoSync |-> autoSync, syncInterval |-> syncInterval]

\* the commands onload registers
Commands == {"sync-pinbox", "authenticate-pinbox", "delete-pinbox-item", "create-pinbox-index"}

DigitValue(c) == CHOOSE d \in 0..9 : Digit(d) = c

RECURSIVE DecimalValue(_)
DecimalValue(ds) ==
  IF ds = <<>> THEN 0
  ELSE 10 * DecimalValue(SubSeq(ds, 1, Len(ds) - 1)) + DigitValue(ds[Len(ds)])

\* parseInt(value) of a decimal text: white space, a sign, and the digits up
\* to the first other character; NaN without a digit
parseInt(value) ==
  LET b == RunEnd(value, 1, SpaceChars)
      d == IF b <= Len(value) /\ value[b] \in {"-", "+"} THEN b + 1 ELSE b
      e == RunEnd(value, d, DigitChars)
      n == DecimalValue(SubSeq(value, d, e - 1))
  IN IF e = d THEN [nan |-> TRUE, value |-> 0]
     ELSE [nan |-> FALSE, value |-> IF d > b /\ value[b] = "-" THEN 0 - n ELSE n]

\* the timeout argument of window.setInterval is a 32-bit long: the
\* milliseconds of the given minutes (minutes * 60 * 1000) modulo 2^32, as a
\* signed number
ToInt32Ms(minutes) ==
  LET y == (minutes * 1875) % 134217728
  IN IF y >= 67108864 THEN 32 * (y - 134217728) ELSE 32 * y

\* the delay the timer runs with: a negative timeout counts as 0
setIntervalDelay(minutes) == IF ToInt32Ms(minutes) < 0 THEN 0 ELSE ToInt32Ms(minutes)

\* stopAutoSync
stopAutoSync(s) ==
  IF s.syncInterval # NoNum
  THEN [s EXCEPT !.timers = {tm \in @ : tm.id # s.syncInterval}, !.syncInterval = NoNum]
  ELSE s

\* startAutoSync
startAutoSync(s) ==
  LET s1 == stopAutoSync(s)
      id == s1.created + 1
  IN [s1 EXCEPT !.timers = @ \cup {[id |-> id,
                                    delay |-> setIntervalDelay(s1.settings.syncInterval)]},
                !.syncInterval = id,
                !.created = id]

\* PinboxSyncerPlugin.saveSettings: saveData, then the setters of
\* this.syncService, which throw a TypeError when it is undefined
PluginSaveSettings(s, outcome) ==
  IF outcome # "saved" THEN [plugin |-> s, error |-> outcome]
  ELSE [plugin |-> [s EXCEPT !.data = s.settings],
        error |-> IF s.syncService THEN "" ELSE "TypeError"]

\* onload of a new plugin object
Load ==
  /\ svc.state \in {"disabled", "load failed"}
  /\ Len(svc.loads) < MaxLoads
  /\ \E outcome \in {"saved", "EIO"} :
       LET s0 == [svc EXCEPT !.settings = svc.data, !.api = FALSE, !.syncService = FALSE,
                             !.commands = {}, !.syncInterval = NoNum]
           first == s0.settings.firstRun
           sv == IF first
                 THEN PluginSaveSettings([s0 EXCEPT !.settings.firstRun = FALSE], outcome)
                 ELSE [plugin |-> s0, error |-> ""]
           entry == [firstRun |-> first,
                     saveBeforeService |-> first /\ ~s0.syncService,
                     completed |-> sv.error = ""]
           s1 == [sv.plugin EXCEPT !.loads = Append(@, entry)]
           s2 == [s1 EXCEPT !.api = TRUE, !.syncService = TRUE, !.commands = Commands,
                            !.state = "loaded"]
       IN svc' = IF sv.error # "" THEN [s1 EXCEPT !.state = "load failed"]
                 ELSE IF s2.settings.autoSync THEN startAutoSync(s2)
                 ELSE s2
  /\ UNCHANGED <<remote, remoteChanges, clock, vault, folders, task>>

\* onunload
Unload ==
  /\ svc.state = "loaded"
  /\ svc' = [stopAutoSync(svc) EXCEPT !.state = "unloaded"]
  /\ UNCHANGED <<remote, remoteChanges, clock, vault, folders, task>>

\* the auto-sync toggle changes: settings.autoSync = value, up to the await
\* of saveSettings
ToggleAutoSync(value) ==
  /\ svc.state = "loaded"
  /\ value # svc.settings.autoSync
  /\ Cardinality(svc.pending) < MaxPending
  /\ svc' = [svc EXCEPT !.settings.autoSync = value,
                        !.pending = @ \cup {[handler |-> "toggle", value |-> value]}]
  /\ UNCHANGED <<remote, remoteChanges, clock, vault, folders, task>>

\* the toggle's handler after its await: startAutoSync or stopAutoSync
AfterToggleSave ==
  /\ svc.created < MaxTimers
  /\ \E h \in svc.pending, outcome \in {"saved", "EIO"} :
       /\ h.handler = "toggle"
       /\ \E sv \in {PluginSaveSettings([svc EXCEPT !.pending = @ \ {h}], outcome)} :
            svc' = IF sv.error # "" THEN sv.plugin
                   ELSE IF h.value THEN startAutoSync(sv.plugin)
                   ELSE stopAutoSync(sv.plugin)
  /\ UNCHANGED <<remote, remoteChanges, clock, vault, folders, task>>

\* the interval text field changes: parseInt, and for a positive number
\* settings.syncInterval = interval, up to the await of saveSettings
ChangeInterval(value) ==
  /\ svc.state = "loaded"
  /\ value # svc.intervalText
  /\ Cardinality(svc.pending) < MaxPending
  /\ LET interval == parseInt(value)
     IN svc' = IF ~interval.nan /\ interval.value > 0
               THEN [svc EXCEPT !.intervalText = value,
                                !.settings.syncInterval = interval.value,
                                !.pending = @ \cup {[handler |-> "interval", value |-> TRUE]}]
               ELSE [svc EXCEPT !.intervalText = value]
  /\ UNCHANGED <<remote, remoteChanges, clock, vault, folders, task>>

\* the interval handler after its await: with auto-sync on, stopAutoSync and
\* startAutoSync
AfterIntervalSave ==
  /\ svc.created < MaxTimers
  /\ \E h \in svc.pending, outcome \in {"saved", "EIO"} :
       /\ h.handler = "interval"
       /\ \E sv \in {PluginSaveSettings([svc EXCEPT !.pending = @ \ {h}], outcome)} :
            svc' = IF sv.error # "" THEN sv.plugin
                   ELSE IF sv.plugin.settings.autoSync
                   THEN startAutoSync(stopAutoSync(sv.plugin))
                   ELSE sv.plugin
  /\ UNCHANGED <<remote, remoteChanges, clock, vault, folders, task>>

\* what the user types into the interval field
IntervalInputs ==
  {<<"6", "0">>, <<"5">>, <<"5", "m">>, <<"0">>, <<"-", "5">>, <<"a">>, <<>>,
   <<"4", "0", "0", "0", "0">>}

InitPlugin ==
  /\ remoteChanges = 0
  /\ clock = 0
  /\ task = [p \in Passes |-> IdleTask]
  /\ remote = Remote(<<>>, <<>>, <<>>, <<>>)
  /\ vault = <<>>
  /\ folders = {}
  /\ \E firstRun \in BOOLEAN, autoSync \in BOOLEAN :
       svc = [settings |-> PluginSettings(firstRun, autoSync, 60),
              data |-> PluginSettings(firstRun, autoSync, 60),
              intervalText |-> <<"6", "0">>,
              state |-> "disabled", api |-> FALSE, syncService |-> FALSE,
              commands |-> {}, syncInterval |-> NoNum, timers |-> {}, created |-> 0,
              pending |-> {}, loads |-> <<>>]

NextPlugin ==
  \/ Load
  \/ Unload
  \/ \E value \in BOOLEAN : ToggleAutoSync(value)
  \/ AfterToggleSave
  \/ \E value \in IntervalInputs : ChangeInterval(value)
  \/ AfterIntervalSave

SpecPlugin == InitPlugin /\ [][NextPlugin]_vars

----------------------------------------------------------------------------
(* SpecSync: the plugin's syncBookmarks, called from the ribbon icon, the   *)
(* command or the timer, around the passes of the SyncService.  svc.settings *)
(* is the plugin's settings object, svc.data the settings stored by         *)
(* saveData, svc.handled the passes after which syncBookmarks has gone on,  *)
(* svc.stamps the assignments of settings.lastSyncTime.                     *)

\* Faulty variant: the time is taken whether the pass returned or raised.
lastSyncTimeAlways(t, old, now) == now

\* syncBookmarks: this.settings.lastSyncTime = Date.now() after a pass that
\* returned; a pass that raised goes to the catch
lastSyncTimeAfter(t, old, now) == IF t.pc = "done" THEN now ELSE old

\* the path and the text of the index note (stand-ins)
IndexPath == <<"Pinbox Index.md">>

IndexText == <<"index">>

\* syncBookmarks is called: without an access token a notice and return,
\* otherwise this.syncService.sync() starts
SyncBookmarks(p) ==
  /\ task[p].pc = "idle"
  /\ \A q \in Passes : q < p => task[q].pc # "idle"
  /\ \A q \in Passes : ~Running(task[q])
  /\ \A q \in Passes : task[q].top = "sync" => q \in svc.handled
  /\ LET t == [IdleTask EXCEPT !.vault0 = vault, !.folders0 = folders,
                               !.changes0 = remoteChanges]
     IN task' = [task EXCEPT ![p] =
          IF svc.settings.accessToken = <<>>
          THEN EndWith([t EXCEPT !.top = "syncBookmarks"], "log in first")
          ELSE [t EXCEPT !.top = "sync", !.pc = "ensure"]]
  /\ UNCHANGED <<Env, vault, folders>>

\* syncBookmarks after its await of sync(): the time of the sync, saveSettings
\* and autoCreateIndexIfNeeded, or the notice of the catch
AfterSync(p) ==
  /\ task[p].top = "sync"
  /\ task[p].pc \in {"done", "failed"}
  /\ p \notin svc.handled
  /\ \E outcome \in {"saved", "EIO"}, index \in {"created", "EIO"} :
       LET ok == task[p].pc = "done"
           s1 == [svc EXCEPT !.handled = @ \cup {p},
                             !.settings.lastSyncTime = lastSyncTimeAfter(task[p], @, clock),
                             !.stamps = IF ok THEN Append(@, [pass |-> p, time |-> clock])
                                        ELSE @]
           saved == ok /\ outcome = "saved"
       IN /\ svc' = IF saved THEN saveSettings([s1 EXCEPT !.data = s1.settings]) ELSE s1
          /\ task' = [task EXCEPT ![p] = IF saved THEN @ ELSE Notify(@, "sync failed")]
          /\ vault' = IF /\ saved /\ s1.settings.enableDataviewIndex
                         /\ IndexPath \notin DOMAIN vault /\ index = "created"
                      THEN vault @@ (IndexPath :> IndexText)
                      ELSE vault
  /\ UNCHANGED <<remote, remoteChanges, clock, folders>>

SyncTokens == {<<>>, GoodToken}

InitSync ==
  /\ remoteChanges = 0
  /\ clock = 0
  /\ task = [p \in Passes |-> IdleTask]
  /\ remote \in SettingsRemotes
  /\ vault = <<>>
  /\ folders = {}
  /\ \E token \in SyncTokens, enableDataviewIndex \in BOOLEAN :
       \E settings \in {[accessToken |-> token, lastSyncTime |-> NoNum,
                         enableDataviewIndex |-> enableDataviewIndex,
                         downloadImages |-> FALSE, imageFolder |-> <<"pics">>]} :
         svc = [syncFolder |-> SyncFolder, downloadImages |-> FALSE,
                imageFolder |-> <<"pics">>, settings |-> settings, data |-> settings,
                handled |-> {}, stamps |-> <<>>]

NextSync ==
  \/ \E p \in Passes :
       \/ SyncBookmarks(p)
       \/ EnsureSyncFolder(p)
       \/ GetCollections(p)
       \/ GetPage(p)
       \/ CheckExisting(p)
       \/ FetchResponse(p, SettingsResponses)
       \/ Wake(p)
       \/ WriteNote(p)
       \/ AfterSync(p)
  \/ Tick

SpecSync == InitSync /\ [][NextSync]_vars

----------------------------------------------------------------------------
(* Properties.  Helpers first.                                              *)

Max(a, b) == IF a > b THEN a ELSE b

Ceil(n, d) == (n + d - 1) \div d

Last(s) == s[Len(s)]

\* the page requests task t sent for collection cid, in the order sent
Requests(t, cid) == SelectSeq(t.reqLog, LAMBDA e : e.cid = cid)

\* everything getAllBookmarks asked for was answered, by the remote state
\* that is still there: the whole collection list and every page
AllSucceeded(t) ==
  /\ t.changes0 = remoteChanges
  /\ t.collections = remote.listed
  /\ Len(t.colLog) = Len(t.collections) + 1
  /\ \A i \in 1..Len(t.colLog) : t.colLog[i].ok

\* the items of collection 0 followed by those of the listed collections
AllItems(r) ==
  r.items[0] \o Concat([i \in 1..Len(r.listed) |-> r.items[r.listed[i].id]])

\* the bookmark a sync pass is materializing
Current(t) == t.bookmarks[t.syncedCount + 1]

ExamplePath == SyncFolder \o <<"/">> \o TitleExample \o <<".md">>

----------------------------------------------------------------------------
(* C1 *)

\* passes 1 and 2 are sync passes, pass 1 completed without error, and the
\* remote state has not changed since pass 1 started
SamePassTwice ==
  /\ task[1].top = "sync" /\ task[1].pc = "done"
  /\ task[2].top = "sync"
  /\ task[2].changes0 = task[1].changes0
  /\ remoteChanges = task[1].changes0

\* pass t has created nothing so far: every bookmark it has handled was
\* skipped, it has fetched no page, and the vault is as it was at its start
NothingCreated(t) ==
  /\ t.newCount = 0
  /\ vault = t.vault0
  /\ t.pc \notin {"fetch", "sleep", "write"}
  /\ t.error # "create"
  /\ \A i \in 1..Len(t.results) : t.results[i].result = "skipped"
  /\ (t.pc = "done" => t.skippedCount = Len(t.bookmarks))

\* C1 as stated: two sync passes one after the other, the first completing
\* without error and the remote state unchanged, create no note in the
\* second pass; every bookmark is skipped and the vault stays the same.
C1_SecondPassCreatesNothing == SamePassTwice => NothingCreated(task[2])

\* C1, amended: the same, when in addition the first pass got the whole
\* collection list and the items of every listed collection (no collection's
\* fetch error was swallowed in the first pass).
C1_SecondPassAfterFullFirstPass ==
  (SamePassTwice /\ AllSucceeded(task[1])) => NothingCreated(task[2])

\* two full passes over the five bookmarks: the first creates three notes,
\* the second skips all five
C1_Witness ==
  /\ SamePassTwice /\ AllSucceeded(task[1])
  /\ task[1].newCount = 3
  /\ task[2].pc = "done" /\ task[2].skippedCount = 5

----------------------------------------------------------------------------
(* C2 *)

\* one step keeps every existing file, and a bookmark checked while a file
\* is at its path comes out skipped
ExistingNotesKept ==
  /\ \A f \in DOMAIN vault : f \in DOMAIN vault' /\ vault'[f] = vault[f]
  /\ \A p \in Passes :
       (/\ task[p].pc = "check"
        /\ task'[p] # task[p]
        /\ NotePath(svc.syncFolder, Current(task[p])) \in DOMAIN vault)
       => /\ task'[p].pc \in {"check", "done"}
          /\ task'[p].syncedCount = task[p].syncedCount + 1
          /\ Last(task'[p].results) = [id |-> Current(task[p]).id, result |-> "skipped"]

\* C2: no step of a sync pass modifies, replaces or deletes an existing note;
\* a bookmark whose derived path holds a file when it is checked is skipped
\* and the file keeps its content, whatever has changed on the remote side.
C2_ExistingNotesNeverTouched == [][ExistingNotesKept]_vars

\* the note of bookmark 42 was created by pass 1, its tags were edited on the
\* service, and pass 2 skipped it: the note still has the old tag
C2_Witness ==
  /\ task[2].pc = "done" /\ task[2].changes0 = 1
  /\ remote.items[5] = <<bExampleEdited>>
  /\ task[1].results = <<[id |-> 42, result |-> "created"]>>
  /\ task[2].results = <<[id |-> 42, result |-> "skipped"]>>
  /\ Includes(vault[ExamplePath], <<"  - ", "news">>)

----------------------------------------------------------------------------
(* C3 *)

\* C3 as stated: after a sync pass that completed without error every
\* bookmark of its list has its own note file: a file is at the path of each
\* bookmark, and no two bookmarks of the list share a path.
C3_OwnNotePerBookmark ==
  \A p \in Passes :
    (task[p].top = "sync" /\ task[p].pc = "done") =>
      LET bs == task[p].bookmarks
      IN \A i, j \in 1..Len(bs) :
           /\ NotePath(svc.syncFolder, bs[i]) \in DOMAIN vault
           /\ (i # j => NotePath(svc.syncFolder, bs[i]) # NotePath(svc.syncFolder, bs[j]))

----------------------------------------------------------------------------
(* C4 *)

\* the names of the tags that have one (a record is reduced to its name)
NamedTags(tags) == SelectSeq([i \in 1..Len(tags) |-> tags[i].name], LAMBDA n : n # <<>>)

\* the tags: block of the frontmatter for the given names
TagBlock(names) ==
  <<"\n", "tags:">> \o Concat([i \in 1..Len(names) |-> <<"\n", "  - ">> \o names[i]])
    \o <<"\n">>

\* a step that creates the note of a titled bookmark with a url whose page
\* was fetched creates that one file, with the id line, the tag lines and
\* the fetched Markdown
CreatedNoteAsSpecified ==
  \A p \in Passes :
    LET t == task[p]
        b == Current(t)
        path == svc.syncFolder \o <<"/">> \o sanitizeFileName(b.title) \o <<".md">>
    IN (/\ t.top = "sync" /\ t.pc = "write"
        /\ b.title # <<>> /\ b.url # <<>> /\ t.webContent # Null
        /\ ~svc.downloadImages
        /\ task'[p].newCount = t.newCount + 1)
       => /\ path \notin DOMAIN vault
          /\ DOMAIN vault' = DOMAIN vault \cup {path}
          /\ Includes(vault'[path], <<"\n", "id: ">> \o NumStr(b.id) \o <<"\n">>)
          /\ (NamedTags(b.tags) # <<>> =>
                Includes(vault'[path], TagBlock(NamedTags(b.tags))))
          /\ Includes(vault'[path], <<"\n">> \o t.webContent)
          /\ Last(task'[p].results) = [id |-> b.id, result |-> "created"]

----------------------------------------------------------------------------
(* C5 *)

\* the collections that were fetched to the end while the remote state
\* stayed as it is: for each, is the number of requests the one given by
\* expected, and the number of items the collection's items_count?
PaginationCounts(t, expected(_)) ==
  \A i \in 1..Len(t.colLog) :
    (t.colLog[i].ok /\ remoteChanges = 0) =>
      LET N == Len(remote.items[t.colLog[i].cid])
      IN /\ Len(Requests(t, t.colLog[i].cid)) = expected(N)
         /\ t.colLog[i].items = N

\* C5 as stated: a collection reporting items_count = N is fetched with
\* exactly ceil(N / 50) page requests and gives exactly N items.
C5_CeilRequests == PaginationCounts(task[1], LAMBDA N : Ceil(N, pageSize))

\* C5, amended: exactly max(1, ceil(N / 50)) page requests (the first page
\* is always requested, so an empty collection costs one request) and
\* exactly N items.
C5_AtLeastOneRequest == PaginationCounts(task[1], LAMBDA N : Max(1, Ceil(N, pageSize)))

\* a default collection of 200 items fetched with 4 requests
C5_Witness ==
  /\ task[1].pc = "done" /\ remoteChanges = 0
  /\ Len(remote.items[0]) = 4 * pageSize
  /\ task[1].colLog[1] = [cid |-> 0, ok |-> TRUE, items |-> 4 * pageSize]
  /\ Len(Requests(task[1], 0)) = 4

----------------------------------------------------------------------------
(* C6 *)

\* the requests sent so far for collection cid follow the pagination rule
PaginationRule(t, cid) ==
  LET rq == Requests(t, cid)
      first == rq[1].items_count
      bound == IF first = NoNum THEN 1 ELSE Max(1, Ceil(first, pageSize))
      failed == \E k \in 1..Len(rq) : rq[k].items_count = NoNum
      finished == \E i \in 1..Len(t.colLog) : t.colLog[i].cid = cid
  IN /\ \A k \in 1..Len(rq) : rq[k].offset = (k - 1) * pageSize
     /\ Len(rq) <= bound
     /\ (finished /\ ~failed => Len(rq) = bound)
     /\ (~finished => t.pc = "page" /\ CurrentCid(t) = cid /\ t.offset = Len(rq) * pageSize)

\* C6: the page requests for one collection use the offsets 0, 50, 100, ...
\* in that order, each once, and stop at the first offset >= total, total
\* being the items_count of the first page: what later pages carry changes
\* nothing, and the number of requests is bounded.
C6_OffsetsAndStop ==
  \A cid \in {task[1].reqLog[k].cid : k \in 1..Len(task[1].reqLog)} :
    PaginationRule(task[1], cid)

\* the default collection had 200 items on the first page and none
\* afterwards: still four requests
C6_Witness ==
  /\ task[1].pc = "done" /\ remoteChanges = 1
  /\ Len(Requests(task[1], 0)) = 4
  /\ Requests(task[1], 0)[1].items_count = 4 * pageSize
  /\ Requests(task[1], 0)[2].items_count = 0

----------------------------------------------------------------------------
(* C7 *)

\* C7: a listed collection whose fetch fails does not fail getAllBookmarks;
\* the call goes on with the collections listed after it, and returns the
\* items of the default collection and of every listed collection whose
\* fetch succeeded.
C7_ListedFailureSwallowed ==
  LET t == task[1]
      log == t.colLog
  IN /\ \A i \in 1..Len(log) :
          (~log[i].ok /\ log[i].cid # 0) =>
            /\ t.pc \in {"page", "done"}
            /\ (t.pc = "page" => t.ci > i - 1)
     /\ (t.pc = "done" =>
           [i \in 1..Len(log) |-> log[i].cid]
             = <<0>> \o [i \in 1..Len(t.collections) |-> t.collections[i].id])
     /\ ((t.pc = "done" /\ remoteChanges = 0) =>
           /\ t.bookmarks = Concat([i \in 1..Len(log) |->
                                      IF log[i].ok THEN remote.items[log[i].cid] ELSE <<>>])
           /\ t.ret = Len(t.bookmarks))

\* collection 5 failed, collection 6 listed after it was fetched: the call
\* returned the one item of the default collection and the 51 of collection 6
C7_Witness ==
  /\ task[1].pc = "done" /\ remoteChanges = 0
  /\ task[1].swallowed = <<5>>
  /\ [i \in 1..3 |-> task[1].colLog[i].ok] = <<TRUE, FALSE, TRUE>>
  /\ task[1].bookmarks = Bulk(0, 1) \o Bulk(6, pageSize + 1)

----------------------------------------------------------------------------
(* C8 *)

\* C8: when every request succeeds, getAllBookmarks returns the items of
\* collection 0 followed by the items of each listed collection in listing
\* order, nothing dropped, duplicated or reordered, and the sync pass
\* materializes the bookmarks in that order.
C8_OrderKept ==
  \A p \in Passes :
    LET t == task[p]
    IN (t.top = "sync" /\ AllSucceeded(t)) =>
         /\ t.bookmarks = AllItems(remote)
         /\ Len(t.results) = t.syncedCount
         /\ \A i \in 1..Len(t.results) : t.results[i].id = t.bookmarks[i].id
         /\ (t.pc \in {"fetch", "sleep", "write"} =>
               t.filePath = NotePath(svc.syncFolder, Current(t)))

\* the five bookmarks of three collections, materialized in list order
C8_Witness ==
  /\ task[1].pc = "done" /\ AllSucceeded(task[1])
  /\ remote.listed = <<Collection(5), Collection(6)>>
  /\ [i \in 1..5 |-> task[1].results[i].id] = <<9, 42, 7, 8, 10>>

----------------------------------------------------------------------------
(* C9 *)

\* C9: whatever the site answers, a call of the content fetcher sends at
\* most 3 requests and then has returned; it returns null or the Markdown
\* of its last response, and it never raises.
C9_FetchBounded ==
  LET t == task[1]
  IN t.top = "fetch" =>
       /\ t.pc \in {"fetch", "sleep", "done"}
       /\ Len(t.trace) <= 3
       /\ (Len(t.trace) = 3 => t.pc = "done")
       /\ (t.pc = "fetch" => t.attempt = Len(t.trace) + 1)
       /\ (t.pc = "sleep" => t.attempt = Len(t.trace))
       /\ (t.pc = "done" =>
             \/ t.webContent = Null
             \/ /\ Last(t.trace).kind = "http" /\ Last(t.trace).status = 200
                /\ t.webContent = htmlToMarkdown(Last(t.trace).page))

\* three network failures: three requests, then null
C9_Witness ==
  /\ task[1].pc = "done"
  /\ task[1].trace = <<Throw, Throw, Throw>>
  /\ task[1].webContent = Null

----------------------------------------------------------------------------
(* C10 *)

\* status >= 500, 429, 408, or a network exception
Retryable(resp) ==
  resp.kind = "throw" \/ resp.status >= 500 \/ resp.status = 429 \/ resp.status = 408

\* pages with real content
ContentPages == {PageHello, PageLong, PageFooter}

\* C10: when attempt k (1 or 2) gets status >= 500, 429 or 408, or a network
\* exception, the fetcher waits k * 1000 ms and then makes attempt k + 1; a
\* site answering 503, 503, 200 is requested three times, with waits of
\* 1000 ms and 2000 ms, and the call returns the Markdown of the third
\* response.
C10_Backoff ==
  LET t == task[1]
  IN t.top = "fetch" =>
       /\ \A k \in {1, 2} :
            (Len(t.trace) >= k /\ Retryable(t.trace[k])) =>
              /\ Len(t.waits) >= k /\ t.waits[k] = k * 1000
              /\ (Len(t.trace) = k =>
                    \/ t.pc = "sleep" /\ t.delay = k * 1000 /\ t.attempt = k
                    \/ t.pc = "fetch" /\ t.attempt = k + 1)
       /\ \A pg \in ContentPages :
            (/\ Len(t.trace) >= 2
             /\ t.trace[1] = Http(503, PageEmpty) /\ t.trace[2] = Http(503, PageEmpty)
             /\ t.pc = "done" /\ t.trace[Len(t.trace)] = Http(200, pg))
            => /\ Len(t.trace) = 3
               /\ t.waits = <<1000, 2000>>
               /\ t.webContent = htmlToMarkdown(pg)
               /\ t.webContent # Null

\* 503, 503, 200: three requests, waits of 1000 and 2000, the page's Markdown
C10_Witness ==
  /\ task[1].pc = "done"
  /\ task[1].trace = <<Http(503, PageEmpty), Http(503, PageEmpty), Http(200, PageHello)>>
  /\ task[1].waits = <<1000, 2000>>
  /\ task[1].webContent = HelloMd

----------------------------------------------------------------------------
(* C11 *)

\* pages whose Markdown is short and holds a placeholder phrase
PlaceholderPages == {PageLoading, PageWaiting}

----------------------------------------------------------------------------
(* C12 *)

\* the last response is a page with one of the content-removed phrases
GotRemovedPage(t) ==
  /\ t.trace # <<>>
  /\ Last(t.trace) = Http(200, PageDeleted)

\* the call ended with null on that response, without a sleep after it
EndedAtOnce(t) ==
  /\ t.pc = "done" /\ t.webContent = Null
  /\ Len(t.waits) = Len(t.trace) - 1

\* C12 as stated: when the HTML of a fetched page holds one of the
\* content-removed / expired / blocked phrases, the fetch returns null on
\* that attempt and sends no further request, whatever the url and the
\* attempt number.
C12_RemovedPageAnyUrl ==
  (task[1].top = "fetch" /\ GotRemovedPage(task[1])) => EndedAtOnce(task[1])

\* C12, amended: the same for a url that contains mp.weixin.qq.com; for any
\* other url the phrases are not looked for and the page is converted like
\* any other page.
C12_RemovedPageWechatUrl ==
  (task[1].top = "fetch" /\ GotRemovedPage(task[1])) =>
    IF Includes(task[1].url, <<"mp.weixin.qq.com">>)
    THEN EndedAtOnce(task[1])
    ELSE task[1].pc = "done" /\ task[1].webContent = htmlToMarkdown(PageDeleted)

\* a WeChat url answers 503 and then the removed page: null after two requests
C12_Witness ==
  /\ task[1].pc = "done"
  /\ task[1].url = <<"https://", "mp.weixin.qq.com", "/s/abc">>
  /\ task[1].trace = <<Http(503, PageEmpty), Http(200, PageDeleted)>>
  /\ task[1].waits = <<1000>>
  /\ task[1].webContent = Null

----------------------------------------------------------------------------
(* C13 *)

\* C13: a 200 response with an empty or all-whitespace body ends the fetch
\* at once: null is returned and no further attempt is made, also on
\* attempt 1 or 2.
C13_EmptyBodyEnds ==
  LET t == task[1]
  IN (/\ t.top = "fetch" /\ t.trace # <<>>
      /\ Last(t.trace).kind = "http" /\ Last(t.trace).status = 200
      /\ Last(t.trace).page \in {PageEmpty, PageBlank})
     => /\ t.pc = "done" /\ t.webContent = Null
        /\ Len(t.waits) = Len(t.trace) - 1

\* an all-whitespace body on attempt 1: null after one request
C13_Witness ==
  /\ task[1].pc = "done"
  /\ task[1].trace = <<Http(200, PageBlank)>>
  /\ task[1].waits = <<>>
  /\ task[1].webContent = Null

----------------------------------------------------------------------------
(* C14 *)

\* pages that are converted and give short Markdown without a placeholder
\* phrase (the Markdown of PageBroken is empty)
ShortPages == {PageHello, PageFooter, PageBroken}

\* C14: a 200 page whose converted Markdown has fewer than 100
\* non-whitespace characters and no placeholder phrase is not discarded: on
\* whichever attempt it comes, the fetch returns that Markdown, not null.
\* A page is converted when its body is not blank and it is not a removed
\* page of a WeChat url.
C14_ShortContentKept ==
  LET t == task[1]
  IN \A pg \in ShortPages :
       (t.top = "fetch" /\ t.trace # <<>> /\ Last(t.trace) = Http(200, pg))
       => /\ t.pc = "done"
          /\ t.webContent = pg.td \/ pg \in {PageFooter, PageBroken}
          /\ t.webContent = htmlToMarkdown(pg)
          /\ t.webContent # Null
          /\ Len(t.waits) = Len(t.trace) - 1

\* the ten characters of "# Hello / World" come on attempt 3 and are returned
C14_Witness ==
  /\ task[1].pc = "done"
  /\ task[1].trace = <<Throw, Http(200, PageLoading), Http(200, PageHello)>>
  /\ task[1].waits = <<1000, 4000>>
  /\ task[1].webContent = HelloMd

----------------------------------------------------------------------------
(* C15 *)

\* operation p is the one that started last
LastStarted(p) ==
  /\ task[p].pc # "idle"
  /\ \A q \in Passes : q > p => task[q].pc = "idle"

\* the service has answered the DELETE request of t with 200 or 204
RemoteReportedSuccess(t) ==
  /\ t.trace # <<>>
  /\ Last(t.trace).kind = "http"
  /\ Last(t.trace).status \in {200, 204}

\* the DELETE request of t got a failure status or raised
RemoteFailed(t) == t.trace # <<>> /\ ~RemoteReportedSuccess(t)

\* C15: when the remote delete-by-id fails, by a failure status or by an
\* exception, the local note is neither removed nor changed and no image
\* folder is removed; nothing local is removed before the remote delete has
\* reported success.  As long as the deletion has no success answer, the
\* files and folders of the vault are those it started with.
C15_NoLocalRemovalWithoutRemoteSuccess ==
  \A p \in Passes :
    (task[p].top = "delete" /\ LastStarted(p) /\ ~RemoteReportedSuccess(task[p]))
    => vault = task[p].vault0 /\ folders = task[p].folders0

\* with image download on and the images there: the first deletion of the
\* note of bookmark 42 gets a 500, the second one an exception after the
\* service has deleted the item; the note and its images are still there
C15_Witness ==
  /\ svc.downloadImages
  /\ \A p \in Passes :
       /\ task[p].top = "delete" /\ task[p].pc = "done"
       /\ task[p].filePath = ExamplePath
       /\ task[p].itemId = <<"4", "2">>
       /\ RemoteFailed(task[p])
  /\ task[1].trace[1].status = 500
  /\ task[2].trace[1].kind = "throw" /\ task[2].trace[1].deleted
  /\ ExamplePath \in DOMAIN vault
  /\ Pics \o <<"/", "4", "2">> \in folders
  /\ Pics \o <<"/", "4", "2", "/", "1.png">> \in DOMAIN vault

----------------------------------------------------------------------------
(* C16 *)

\* the image folder of the bookmark whose note t deletes
ItemImages(t) == Pics \o <<"/">> \o t.itemId

\* deletion p has ended after the service reported success
EndedAfterRemoteSuccess(p) ==
  /\ task[p].top = "delete" /\ task[p].pc = "done"
  /\ LastStarted(p)
  /\ RemoteReportedSuccess(task[p])

\* C16 as stated: when the remote delete-by-id succeeds, the deletion ends
\* with the local note removed and, if image download is enabled, with the
\* folder <imageFolder>/<id> of the bookmark removed.
C16_LocalRemovedAfterRemoteSuccess ==
  \A p \in Passes :
    EndedAfterRemoteSuccess(p)
    => /\ task[p].filePath \notin DOMAIN vault
       /\ svc.downloadImages => ItemImages(task[p]) \notin folders

\* C16, amended: after a remote success the deletion ends with the note
\* removed unless removing it raised; then the note is left, the failure is
\* shown, and the image folder is not touched.  With the note removed and
\* image download enabled, the folder <imageFolder>/<id> and the files in it
\* are removed unless removing the folder raised, which is only logged.
\* With image download disabled the folders are left as they were.
C16_LocalRemovedUnlessRemovalRaises ==
  \A p \in Passes :
    EndedAfterRemoteSuccess(p)
    => LET t == task[p]
       IN IF Last(t.notices) = "delete failed: EIO"
          THEN vault = t.vault0 /\ folders = t.folders0
          ELSE /\ Last(t.notices) = "local note deleted"
               /\ t.filePath \notin DOMAIN vault
               /\ IF svc.downloadImages /\ t.error # "image folder"
                  THEN /\ ItemImages(t) \notin folders
                       /\ \A f \in DOMAIN vault : ~Below(f, ItemImages(t))
                  ELSE folders = t.folders0

\* the service answers 204 to the deletion of the note of bookmark 42; the
\* note, the folder pics/42 and the image in it are gone, the other note and
\* its images are still there
C16_Witness ==
  /\ EndedAfterRemoteSuccess(1)
  /\ task[1].trace[1].status = 204
  /\ svc.downloadImages /\ svc.imageFolder = Pics \o <<"/">>
  /\ Pics \o <<"/", "4", "2">> \in task[1].folders0
  /\ Pics \o <<"/", "4", "2">> \notin folders
  /\ DOMAIN vault = {NotePath(SyncFolder, bSlash), OwnNotePath, Pics \o <<"/", "7", "/", "2.png">>}
  /\ AllItems(remote) = <<bSlash>>

----------------------------------------------------------------------------
(* C17 *)

\* the results of pass t that are r
ResultsOf(t, r) == SelectSeq(t.results, LAMBDA e : e.result = r)

\* C17: a sync pass that completes returns the number of bookmarks in the
\* list getAllBookmarks gave it; every bookmark of the list was materialized
\* exactly once, in the order of the list, and the created and the skipped
\* ones add up to the number returned.  A pass over an empty list returns 0
\* and creates no note.
C17_ReturnsListLength ==
  \A p \in Passes :
    LET t == task[p]
    IN (t.top = "sync" /\ t.pc = "done")
       => /\ t.ret = Len(t.bookmarks)
          /\ Len(t.results) = Len(t.bookmarks)
          /\ \A i \in 1..Len(t.bookmarks) :
               /\ t.results[i].id = t.bookmarks[i].id
               /\ t.results[i].result \in {"created", "skipped"}
          /\ Len(ResultsOf(t, "created")) = t.newCount
          /\ Len(ResultsOf(t, "skipped")) = t.skippedCount
          /\ t.newCount + t.skippedCount = t.ret
          /\ LastStarted(p) =>
               /\ Cardinality(DOMAIN vault \ DOMAIN t.vault0) = t.newCount
               /\ t.bookmarks = <<>> => (t.ret = 0 /\ vault = t.vault0)

\* a pass over five bookmarks, of which the last two have the note path of an
\* earlier one: it returns 5, with 3 notes created and 2 bookmarks skipped
C17_Witness ==
  /\ task[1].top = "sync" /\ task[1].pc = "done"
  /\ Len(task[1].bookmarks) = 5
  /\ task[1].ret = 5 /\ task[1].newCount = 3 /\ task[1].skippedCount = 2
  /\ task[1].results[4] = [id |-> 8, result |-> "skipped"]
  /\ task[1].results[5] = [id |-> 10, result |-> "skipped"]
  /\ Cardinality(DOMAIN vault) = 3

----------------------------------------------------------------------------
(* C18 *)

\* the paths of the notes pass t has created
CreatedPaths(t) ==
  {NotePath(SyncFolder, t.bookmarks[i]) :
     i \in {j \in 1..Len(t.results) : t.results[j].result = "created"}}

\* C18: when materializing the k-th bookmark of a pass raises, the pass
\* raises that error to its caller, the notes created for bookmarks 1..k-1
\* stay in the vault, and no bookmark after the k-th is processed in that
\* pass.  From the raise on, the pass is failed, has returned nothing, and
\* bookmarks 1..k-1 are the only ones it has a result for; as long as no
\* later pass has started, the vault holds what it held before the pass and
\* the notes created for bookmarks 1..k-1, and nothing else.
C18_PassStopsAtError ==
  \A p \in Passes :
    LET t == task[p]
    IN t.raised # <<>> =>
         LET k == t.raised[1]
         IN /\ t.top = "sync" /\ t.pc = "failed" /\ t.error = "create"
            /\ t.raised = <<k>>
            /\ t.ret = NoNum
            /\ Len(t.results) = k - 1 /\ t.syncedCount = k - 1
            /\ t.filePath = NotePath(SyncFolder, t.bookmarks[k])
            /\ LastStarted(p) =>
                 /\ DOMAIN vault = DOMAIN t.vault0 \cup CreatedPaths(t)
                 /\ \A path \in DOMAIN t.vault0 : vault[path] = t.vault0[path]
                 /\ \A i \in 1..(k - 1) :
                      NotePath(SyncFolder, t.bookmarks[i]) \in DOMAIN vault

\* the creation of the third note of five raises: the pass has failed, the
\* two notes created before are in the vault
C18_Witness ==
  /\ task[1].top = "sync" /\ task[1].pc = "failed" /\ task[1].error = "create"
  /\ Len(task[1].bookmarks) = 5
  /\ task[1].raised = <<3>>
  /\ task[1].results = <<[id |-> 9, result |-> "created"], [id |-> 42, result |-> "created"]>>
  /\ DOMAIN vault = {NotePath(SyncFolder, bNoTitle), ExamplePath}
  /\ task[2].pc = "idle"

----------------------------------------------------------------------------
(* C19 *)

\* the bookmarks of pass t that have a url, whose content fetch ended in null
\* and that have their result
NullFetched(t) ==
  {i \in 1..Len(t.results) :
     /\ t.bookmarks[i].url # <<>>
     /\ t.results[i].result # "skipped"
     /\ t.fetched[i] = Null}

\* C19: a content fetch that ends in null does not fail the sync pass: the
\* note of the bookmark is created with the content-unavailable notice in
\* the place of the page content, the bookmark counts as created, and the
\* pass goes on to the next bookmark.  A pass that has its list of bookmarks
\* fails only when the creation of a note raises; a pass that holds a null
\* fetch result is about to write the note.
C19_NullFetchNotFatal ==
  \A p \in Passes :
    LET t == task[p]
    IN t.top = "sync" =>
         /\ (t.pc = "failed" /\ t.bookmarks # <<>>) =>
              (t.error = "create" /\ t.raised = <<t.syncedCount + 1>>)
         /\ (t.webContent = Null /\ t.url # <<>>) => t.pc \in {"fetch", "sleep", "write", "failed"}
         /\ Len(t.fetched) = Len(t.results)
         /\ t.newCount = Len(ResultsOf(t, "created"))
         /\ \A i \in NullFetched(t) :
              /\ t.results[i].result = "created"
              /\ i < Len(t.bookmarks) =>
                   (t.syncedCount > i \/ t.pc \in {"check", "fetch", "sleep", "write", "failed"})
              /\ i = Len(t.bookmarks) => (t.pc = "done" /\ t.ret = i)
              /\ LastStarted(p) =>
                   LET note == vault[NotePath(SyncFolder, t.bookmarks[i])]
                       notice == Join(UnavailableNotice, <<"\n">>)
                   IN /\ Includes(note, notice)
                      /\ ~Includes(note, HelloMd)
                      /\ Drop(note, Len(note) - Len(notice)) = notice

\* the fetch for the first of five bookmarks ends in null after three
\* placeholder pages; its note holds the notice and the pass goes on: the
\* second bookmark gets the fetched page and the pass completes
C19_Witness ==
  /\ task[1].top = "sync" /\ task[1].pc = "done" /\ task[1].ret = 5
  /\ task[1].fetched[1] = Null /\ task[1].fetched[2] = HelloMd
  /\ task[1].results[1] = [id |-> 9, result |-> "created"]
  /\ Includes(vault[NotePath(SyncFolder, bNoTitle)], Join(UnavailableNotice, <<"\n">>))
  /\ Includes(vault[ExamplePath], HelloMd)
  /\ task[2].pc = "idle"

----------------------------------------------------------------------------
(* C20 *)

\* pass p has failed on an error that says the folder or the file it was to
\* create was there already
FailedByExisting(p) ==
  /\ task[p].top = "sync" /\ task[p].pc = "failed"
  /\ task[p].notices # <<>>
  /\ Last(task[p].notices) \in {"File already exists", "Folder already exists"}

\* the creations of a note at path, over all passes
Creations(path) ==
  {pi \in Passes \X (1..2) :
     /\ pi[2] <= Len(task[pi[1]].results)
     /\ task[pi[1]].results[pi[2]].result = "created"
     /\ NotePath(SyncFolder, task[pi[1]].bookmarks[pi[2]]) = path}

\* every note of the vault was written once, by one pass
NotesWrittenOnce == \A path \in DOMAIN vault : Cardinality(Creations(path)) = 1

\* C20: when two sync passes overlap over the same remote state, neither
\* pass ends in failure because the other one created the folder or a note
\* first, and no note is written twice.
C20_OverlapTolerated ==
  /\ \A p \in Passes : ~FailedByExisting(p)
  /\ NotesWrittenOnce

----------------------------------------------------------------------------
(* C21 *)

\* the file name in the path task t derived: the path without the folder in
\* front and the extension behind
DerivedName(t) == SubSeq(t.filePath, 3, Len(t.filePath) - 1)

\* C21: for every title, the derived file name holds none of the characters
\* \ / : * ? " < > |, holds no run of two or more whitespace characters, and
\* is at most 200 characters long; for an empty title the file name is the
\* id of the bookmark in decimal.
C21_SafeFileName ==
  LET t == task[1]
      name == DerivedName(t)
  IN t.top = "name" =>
       /\ t.filePath[1] = "Pinbox" /\ t.filePath[2] = "/"
       /\ t.filePath[Len(t.filePath)] = ".md"
       /\ \A i \in 1..Len(name) :
            name[i] \notin {"\\", "/", ":", "*", "?", "\"", "<", ">", "|"}
       /\ \A i \in 1..(Len(name) - 1) :
            ~(name[i] \in {" ", "\t", "\n", "\r"} /\ name[i + 1] \in {" ", "\t", "\n", "\r"})
       /\ Len(name) <= 200
       /\ t.bookmarks[1].title = <<>> =>
            name = (CASE t.bookmarks[1].id = 7 -> <<"7">>
                      [] t.bookmarks[1].id = 42 -> <<"4", "2">>
                      [] t.bookmarks[1].id = 100 -> <<"1", "0", "0">>)

\* a title of 198 letters, a space, a line break and three letters: the name
\* has one space for the two and is cut after 200 characters
C21_Witness ==
  /\ task[1].top = "name"
  /\ Len(task[1].bookmarks[1].title) = 203
  /\ Len(DerivedName(task[1])) = 200
  /\ SubSeq(DerivedName(task[1]), 198, 200) = <<"a", " ", "b">>

----------------------------------------------------------------------------
(* C22 *)

\* the positions of the footer marker phrases in text
MarkerPositions(text) ==
  {i \in 1..Len(text) :
     text[i] \in {"<yulanshibiaoqianbukedian>", "<weixinsaoyisao>",
                  "<guanzhugaigongzhonghao>", "Scan QR Code"}}

\* text up to its first footer marker phrase
BeforeFirstMarker(text) ==
  SubSeq(text, 1, (CHOOSE i \in MarkerPositions(text) :
                     \A j \in MarkerPositions(text) : i <= j) - 1)

\* C22: whenever the converted Markdown holds the scan-with-WeChat phrase,
\* the output of the normalizer holds neither that phrase nor what followed
\* it: the output is the text before the first occurrence of any footer
\* marker phrase, for every combination and order of markers.
C22_CutAtFirstMarker ==
  LET t == task[1]
  IN (t.top = "markdown" /\ MarkerPositions(t.trace[1].td) # {})
     => /\ MarkerPositions(t.webContent) = {}
        /\ t.webContent = CleanMarkdown(BeforeFirstMarker(t.trace[1].td))

----------------------------------------------------------------------------
(* C23 *)

\* C23: for every input, the output of the normalizer never holds three or
\* more newlines in a row, has no line that ends in white space, and neither
\* begins nor ends with a blank line.
C23_NormalizedNewlines ==
  LET t == task[1]
      out == t.webContent
  IN t.top = "markdown" =>
       /\ \A i \in 1..(Len(out) - 2) :
            ~(out[i] = "\n" /\ out[i + 1] = "\n" /\ out[i + 2] = "\n")
       /\ \A i \in 1..Len(out) :
            out[i] \in {" ", "\t", "\r"} => (i < Len(out) /\ out[i + 1] # "\n")
       /\ out # <<>> => (out[1] # "\n" /\ out[Len(out)] # "\n")

\* blank lines in front, two loose list items, four newlines and blanks at
\* line ends: the list is tight, one blank line is left before the paragraph
C23_Witness ==
  /\ task[1].top = "markdown"
  /\ Len(task[1].trace[1].td) = 26
  /\ task[1].webContent =
       <<"-", " ", "a", "\n", "-", " ", "b", "\n", "\n", "c", " ", "d">>

----------------------------------------------------------------------------
(* C24 *)

\* the aud value of the tokens that have three parts and a JSON payload with
\* an aud field
AudOf ==
  (<<"header", ".", "{aud:u1}", ".", "signature">> :> <<"u1">>) @@
  (<<"header", ".", "{aud:u2}", ".", "signature">> :> <<"u2">>)

\* C24: a call made with a token that has not three parts separated by
\* dots, whose middle part does not decode to JSON, or whose payload has no
\* aud field fails with an error before any request is sent; with a
\* well-formed token the user id of the request is the aud value of the
\* token.
C24_UserIdFromToken ==
  \A p \in Passes :
    task[p].top = "call" =>
      IF task[p].token \in DOMAIN AudOf
      THEN /\ Len(task[p].reqLog) = 1
           /\ task[p].reqLog[1].userId = AudOf[task[p].token]
      ELSE /\ task[p].pc = "failed"
           /\ task[p].error = "Unable to extract user ID from token"
           /\ task[p].reqLog = <<>>
           /\ task[p].trace = <<>>

\* a call with a three-part token whose payload has no aud field has failed
\* without a request
C24_Witness ==
  /\ task[1].top = "call"
  /\ task[1].token = <<"header", ".", "{sub:u1}", ".", "signature">>
  /\ task[1].pc = "failed"
  /\ task[1].reqLog = <<>>

----------------------------------------------------------------------------
(* C25 *)

\* the answer to the request of task p
CallStatus(p) == task[p].trace[1].status

CallSent(p) == task[p].top = "call" /\ task[p].reqLog # <<>>

\* a network failure propagates as an exception
CallThrowPropagates(p) ==
  (CallSent(p) /\ task[p].trace[1].kind = "throw")
    => (task[p].pc = "failed" /\ task[p].error = "request")

\* the operation of task p raised an error that carries the status
RaisedWithStatus(p) ==
  task[p].pc = "failed" /\ task[p].error = "Failed to fetch" /\ task[p].status = CallStatus(p)

\* C25 as stated: each of the three operations raises an error carrying the
\* status code when the response status is not 200, and a network failure
\* propagates as an exception.
C25_Non200Raises ==
  \A p \in Passes :
    /\ CallThrowPropagates(p)
    /\ (CallSent(p) /\ task[p].trace[1].kind = "http" /\ CallStatus(p) # 200)
         => RaisedWithStatus(p)

\* C25: getCollections and getCollectionItems raise an error carrying the
\* status code when the response status is not 200; deleteItem raises nothing
\* on a response: it returns true on 200 and on 204 and false on every other
\* status; a network failure propagates as an exception from all three.
C25_ListRaisesDeleteReturns ==
  \A p \in Passes :
    /\ CallThrowPropagates(p)
    /\ (CallSent(p) /\ task[p].trace[1].kind = "http") =>
         IF task[p].op = "deleteItem"
         THEN /\ task[p].pc = "done"
              /\ task[p].returned = IF CallStatus(p) \in {200, 204} THEN "true" ELSE "false"
         ELSE IF CallStatus(p) = 200 THEN task[p].pc = "done" /\ task[p].returned = "list"
         ELSE RaisedWithStatus(p)

\* deleteItem got 404 and returned false; no error was raised
C25_Witness ==
  /\ CallSent(1)
  /\ task[1].op = "deleteItem"
  /\ task[1].trace[1].kind = "http"
  /\ CallStatus(1) = 404
  /\ task[1].pc = "done"
  /\ task[1].returned = "false"

----------------------------------------------------------------------------
(* C26 *)

\* C26: a sync pass uses the settings in force when it starts: after the
\* user has changed the sync folder in the settings, the next pass ensures
\* the new folder and checks for and writes its notes under it.  (The
\* settings change only between passes, so the settings of a running pass
\* are those it started with.)
C26_PassUsesSettingsInForce ==
  \A p \in Passes :
    (task[p].top = "sync" /\ Running(task[p])) =>
      /\ task[p].pc # "ensure" => svc.settings.syncFolder \in folders
      /\ task[p].filePath # <<>> => <<task[p].filePath[1]>> = svc.settings.syncFolder

----------------------------------------------------------------------------
(* C27 *)

\* the k-th answer to task p was a response with a status other than 200
\* that is neither 5xx nor 429 nor 408
FinalStatusAt(p, k) ==
  /\ task[p].trace[k].kind = "http"
  /\ task[p].trace[k].status \notin {200, 408, 429}
  /\ task[p].trace[k].status < 500

\* C27: a response to a content fetch with a status other than 200 that is
\* neither 5xx nor 429 nor 408 (403, 404) ends the fetch with null after that
\* request: it is the last request, and no backoff wait follows it.
C27_ClientErrorEndsFetch ==
  \A p \in Passes :
    task[p].top = "fetch" =>
      \A k \in 1..Len(task[p].trace) :
        FinalStatusAt(p, k) =>
          /\ k = Len(task[p].trace)
          /\ Len(task[p].waits) = k - 1
          /\ task[p].pc = "done"
          /\ task[p].webContent = Null

\* the first request was answered 404: one request, no wait, null
C27_Witness ==
  /\ task[1].top = "fetch"
  /\ Len(task[1].trace) = 1
  /\ FinalStatusAt(1, 1)
  /\ task[1].trace[1].status = 404
  /\ task[1].waits = <<>>
  /\ task[1].pc = "done"
  /\ task[1].webContent = Null

----------------------------------------------------------------------------
(* C28 *)

\* the notes that have appeared in the vault since task t started
NotesSince(t) == (DOMAIN vault) \ (DOMAIN t.vault0)

----------------------------------------------------------------------------
(* C29 *)

\* C29: nothing prevents a second sync pass from starting while one is in
\* flight: at every point of a running pass, whatever it is doing, the next
\* pass can start.
C29_SecondPassCanStart ==
  \A p \in Passes \ {1} :
    (task[p].pc = "idle" /\ task[p - 1].pc # "idle") => ENABLED StartOverlapping(p)

\* two passes are running, and both have the request for the page of the
\* same bookmark in flight, for the same note
C29_Witness ==
  /\ task[1].top = "sync" /\ task[2].top = "sync"
  /\ task[1].pc = "fetch" /\ task[2].pc = "fetch"
  /\ Current(task[1]) = bExample /\ Current(task[2]) = bExample
  /\ task[1].url = task[2].url
  /\ task[1].filePath = task[2].filePath

----------------------------------------------------------------------------
(* C30 *)

\* the note of a bookmark without fetched content and without the notice:
\* the front matter and the user's own remark, written at time now
BareNote(bookmark, now) ==
  Join(FrontmatterLines(bookmark, now)
         \o (IF bookmark.note # <<>> THEN << <<"## note">>, <<>>, bookmark.note, <<>> >>
             ELSE <<>>),
       <<"\n">>)

\* C30: the content fetcher is called only for a bookmark that has a url and
\* no note at its path.  A skipped bookmark causes no content request, and a
\* bookmark without url gets a note with neither fetched content nor the
\* notice that the content is unavailable.
C30_FetchOnlyForNewWithUrl ==
  \A p \in Passes :
    LET t == task[p]
    IN t.top = "sync" =>
         /\ t.pc \in {"fetch", "sleep"} =>
              (Current(t).url # <<>> /\ t.filePath \notin DOMAIN vault)
         /\ Len(t.asked) = Len(t.results)
         /\ \A i \in 1..Len(t.results) :
              LET b == t.bookmarks[i]
                  path == NotePath(SyncFolder, b)
              IN /\ t.asked[i] => (b.url # <<>> /\ t.results[i].result = "created"
                                   /\ path \notin DOMAIN t.vault0)
                 /\ t.results[i].result = "skipped" => (~t.asked[i] /\ t.fetched[i] = Null)
                 /\ (t.results[i].result = "created" /\ b.url = <<>>) =>
                      /\ ~t.asked[i]
                      /\ \E now \in 0..MaxClock : vault[path] = BareNote(b, now)
                      /\ ~Includes(vault[path], UnavailableNotice[1])

\* a pass over five bookmarks: the first two have a url and no note, the
\* third has no url and was created, the last two were skipped
C30_Witness ==
  /\ task[1].top = "sync" /\ task[1].pc = "done"
  /\ task[1].asked = <<TRUE, TRUE, FALSE, FALSE, FALSE>>
  /\ [i \in 1..5 |-> task[1].results[i].result] =
       <<"created", "created", "created", "skipped", "skipped">>
  /\ task[1].bookmarks[3] = bSlash

----------------------------------------------------------------------------
(* C31 *)

\* the rounds of the image loop of task t in which the file system refused
\* the folder of the images or the image file
ImageFsErrors(t) ==
  {k \in 1..Len(t.imgLog) : t.imgLog[k].why \in {"folder: EACCES", "EIO"}}

----------------------------------------------------------------------------
(* C32 *)

\* task p created the note of bExample
Created(p) ==
  /\ task[p].top = "sync"
  /\ task[p].results = <<[id |-> 42, result |-> "created"]>>

\* the texts generateMarkdownContent can have given for that note
GeneratedTexts(p) ==
  {generateMarkdownContent(bExample, task[p].fetched[1], now) : now \in 0..MaxClock}

\* the number of the match at position i of text
MatchNo(text, i) == Cardinality({j \in 1..i : text[j] \in DOMAIN ImageRefs})

\* text with each reference replaced in its place by the embed of the file
\* that downloadImage returned for it, and left alone when it returned null
RewrittenInPlace(text, log) ==
  Concat([i \in 1..Len(text) |->
            IF text[i] \in DOMAIN ImageRefs /\ log[MatchNo(text, i)].rewritten
            THEN Embed(log[MatchNo(text, i)].name)
            ELSE <<text[i]>>])

Occurrences(text, tok) == Cardinality({i \in 1..Len(text) : text[i] = tok})

\* what holds of the image loop whatever the references are
ImageLoopFrame(p, generated) ==
  LET t == task[p]
      note == vault[ExamplePath]
  IN IF ~svc.downloadImages
     THEN t.imgLog = <<>> /\ note = generated /\ DOMAIN vault = {ExamplePath}
     ELSE /\ [k \in 1..Len(t.imgLog) |-> t.imgLog[k].ref] = Matches(generated)
          /\ \A k \in 1..Len(t.imgLog) :
               /\ ~ImageRefs[t.imgLog[k].ref].http =>
                    (~t.imgLog[k].requested /\ ~t.imgLog[k].rewritten)
               /\ t.imgLog[k].why \in {"folder: EACCES", "request failed", "EIO"} =>
                    ~t.imgLog[k].rewritten
               /\ t.imgLog[k].why = "saved" =>
                    (t.imgLog[k].rewritten /\ Includes(note, Embed(t.imgLog[k].name)))

----------------------------------------------------------------------------
(* C40 *)

\* the path of the image file named name, of bookmark 42
ImagePathOf(name) == ImageFolderPath(svc.imageFolder, NumStr(42)) \o <<"/">> \o name

\* C40: within one materialization, each rewritten embed names a file that
\* holds the bytes downloaded from the url of its own reference, for every
\* timing of the downloads, two downloads in the same millisecond included.
C40_EmbedNamesOwnImage ==
  \A p \in Passes :
    task[p].top = "sync" =>
      \A k \in 1..Len(task[p].imgLog) :
        task[p].imgLog[k].rewritten =>
          /\ ImagePathOf(task[p].imgLog[k].name) \in DOMAIN vault
          /\ vault[ImagePathOf(task[p].imgLog[k].name)] = ImageBytes(task[p].imgLog[k].ref)

----------------------------------------------------------------------------
(* C33 *)

\* deletion p has ended after the service reported success, and the note is
\* still in the vault
NoteLeftAfterRemoteSuccess(p) ==
  /\ EndedAfterRemoteSuccess(p)
  /\ task[p].filePath \in DOMAIN vault

\* C33: when the remote delete succeeds and removing the local note fails,
\* the failure is shown to the user, the note stays in the vault as it was,
\* the image folder of the bookmark is not removed, and the remote deletion
\* is not undone: one request was sent, and the item stays deleted.
C33_LocalFailureLeavesOrphan ==
  \A p \in Passes :
    NoteLeftAfterRemoteSuccess(p) =>
      /\ Last(task[p].notices) = "delete failed: EIO"
      /\ vault = task[p].vault0
      /\ folders = task[p].folders0
      /\ Len(task[p].trace) = 1
      /\ remote = WithoutItem(task[p].remote0, task[p].itemId)

\* the service deleted bookmark 42, the note could not be trashed: the note
\* and the folder pics/42 with its image are still there, the bookmark is
\* gone from the service
C33_Witness ==
  /\ NoteLeftAfterRemoteSuccess(1)
  /\ task[1].filePath = ExamplePath
  /\ svc.downloadImages
  /\ Pics \o <<"/", "4", "2">> \in folders
  /\ Pics \o <<"/", "4", "2", "/", "1.png">> \in DOMAIN vault
  /\ AllItems(task[1].remote0) = <<bExample, bSlash>>
  /\ AllItems(remote) = <<bSlash>>

----------------------------------------------------------------------------
(* C34 *)

\* the request for the collection list, or a page request of the default
\* collection, failed in operation t
ListOrDefaultFailed(t) ==
  \/ t.error \in {"collections", "default collection"}
  \/ \E i \in 1..Len(t.colLog) : t.colLog[i].cid = 0 /\ ~t.colLog[i].ok

\* C34: when the request for the collection list or a page request of the
\* default collection fails, getAllBookmarks raises and returns no list, not
\* even the pages it had fetched; the sync pass that called it fails, has
\* processed no bookmark, and has created no note.
C34_ListOrDefaultFailureFailsPass ==
  \A p \in Passes :
    LET t == task[p]
    IN ListOrDefaultFailed(t) =>
         /\ t.pc = "failed"
         /\ t.error \in {"collections", "default collection"}
         /\ t.ret = NoNum
         /\ t.bookmarks = <<>> /\ t.allBookmarks = <<>>
         /\ t.results = <<>> /\ t.syncedCount = 0
         /\ t.swallowed = <<>>
         /\ LastStarted(p) => vault = t.vault0

\* the first pass failed at the collection list; the second fetched a page
\* of the default collection and failed at the next one; the vault is as it
\* was
C34_Witness ==
  /\ task[1].top = "sync" /\ task[1].pc = "failed" /\ task[1].error = "collections"
  /\ task[2].top = "sync" /\ task[2].pc = "failed" /\ task[2].error = "default collection"
  /\ Len(task[2].reqLog) >= 2
  /\ task[2].reqLog[1].items_count > pageSize
  /\ task[2].colLog = <<[cid |-> 0, ok |-> FALSE, items |-> 0]>>
  /\ vault = task[1].vault0

----------------------------------------------------------------------------
(* C35 *)

\* the number of items the finished collections of call t have contributed
\* according to its log: all the fetched items of a collection whose every
\* request succeeded, none of a collection with a failed request
RECURSIVE Contributed(_, _)
Contributed(log, n) ==
  IF n = 0 THEN 0
  ELSE Contributed(log, n - 1) + (IF log[n].ok THEN log[n].items ELSE 0)

\* the successful page requests call t made for collection cid
PagesFetched(t, cid) ==
  {i \in 1..Len(t.reqLog) : t.reqLog[i].cid = cid /\ t.reqLog[i].items_count # NoNum}

\* C35: a collection contributes all the pages fetched from it, or nothing.
\* The list getAllBookmarks builds holds the items of the collections whose
\* every page request succeeded and nothing of a collection one of whose
\* requests failed, whatever was fetched from it before the failure; a
\* collection still being read has contributed nothing yet.
C35_AllPagesOrNothing ==
  LET t == task[1]
      log == t.colLog
  IN /\ Len(t.allBookmarks) = Contributed(log, Len(log))
     /\ \A i \in 1..Len(log) : ~log[i].ok => log[i].items = 0
     /\ remoteChanges = 0 =>
          t.allBookmarks = Concat([i \in 1..Len(log) |->
                                     IF log[i].ok THEN remote.items[log[i].cid] ELSE <<>>])
     /\ (t.pc = "done" /\ remoteChanges = 0) =>
          \A i \in 1..Len(log) :
            ~log[i].ok =>
              \A k \in 1..Len(t.bookmarks) :
                \A j \in 1..Len(remote.items[log[i].cid]) :
                  t.bookmarks[k] # remote.items[log[i].cid][j]

\* the first page of collection 6 was fetched, the second request failed:
\* the call returned the default collection and collection 5, and none of
\* the 50 items fetched from collection 6
C35_Witness ==
  /\ task[1].pc = "done" /\ remoteChanges = 0
  /\ task[1].swallowed = <<6>>
  /\ Cardinality(PagesFetched(task[1], 6)) = 1
  /\ Len(Requests(task[1], 6)) = 2
  /\ task[1].bookmarks = <<bExample, bSlash>>

----------------------------------------------------------------------------
(* C36 *)

\* deletion t had an access token, its file was in the vault, the file had
\* an "id: <digits>" line, and the user confirmed
DeletionCleared(t) ==
  /\ svc.accessToken # <<>>
  /\ t.filePath # Null
  /\ t.filePath \in DOMAIN t.vault0
  /\ IdMatch(t.vault0[t.filePath]) # <<>>
  /\ t.itemId = IdMatch(t.vault0[t.filePath])
  /\ \E i \in 1..Len(t.notices) : t.notices[i] = "deleting"

\* C36: a deletion sends the DELETE request, and removes local data, only
\* after all of these held: an access token is set, the file exists, an
\* "id: <digits>" line was found in it, and the user confirmed.  When one of
\* them fails, no request is sent, and the vault, its folders and the service
\* are as they were.
C36_DeletionOnlyWhenCleared ==
  \A p \in Passes :
    LET t == task[p]
    IN t.top = "delete" =>
         /\ t.trace # <<>> => DeletionCleared(t)
         /\ t.pc \in {"remote", "trash", "images"} => DeletionCleared(t)
         /\ (LastStarted(p) /\ ~DeletionCleared(t)) =>
              /\ t.trace = <<>>
              /\ vault = t.vault0 /\ folders = t.folders0
              /\ remote = t.remote0

\* the user declined the first deletion of the note of bookmark 42: no
\* request, nothing changed; the second one was confirmed, and the bookmark
\* and the note are gone
C36_Witness ==
  /\ task[1].top = "delete" /\ task[1].pc = "done"
  /\ task[1].filePath = ExamplePath /\ task[1].itemId = <<"4", "2">>
  /\ task[1].notices = <<>> /\ task[1].trace = <<>>
  /\ task[2].top = "delete" /\ task[2].pc = "done"
  /\ task[2].filePath = ExamplePath
  /\ task[2].vault0 = task[1].vault0 /\ task[2].remote0 = task[1].remote0
  /\ DeletionCleared(task[2])
  /\ Len(task[2].trace) = 1
  /\ ExamplePath \notin DOMAIN vault
  /\ AllItems(remote) = <<bSlash>>

----------------------------------------------------------------------------
(* C37 *)

\* C37: a load of the plugin with firstRun = true completes: saveSettings is
\* not executed before the sync service is constructed, and after the load
\* the API client and the sync service exist, the commands are registered
\* and firstRun is false.
C37_FirstRunLoadCompletes ==
  /\ \A i \in 1..Len(svc.loads) :
       svc.loads[i].firstRun =>
         svc.loads[i].completed /\ ~svc.loads[i].saveBeforeService
  /\ (svc.loads # <<>> /\ svc.state # "disabled" /\ svc.loads[Len(svc.loads)].firstRun) =>
       /\ svc.state # "load failed"
       /\ svc.api /\ svc.syncService
       /\ svc.commands = Commands
       /\ ~svc.settings.firstRun

----------------------------------------------------------------------------
(* C38 *)

\* no handler is at its await
Settled == svc.pending = {}

\* C38: at most one interval timer is live at any time; once the handlers
\* have run to their end, no timer is live after stopAutoSync or unload, and
\* a live timer runs with the interval accepted last.
C38_OneTimerWithCurrentInterval ==
  /\ Cardinality(svc.timers) <= 1
  /\ svc.syncInterval = NoNum => svc.timers = {}
  /\ (Settled /\ svc.state = "unloaded") => svc.timers = {}
  /\ Settled =>
       \A tm \in svc.timers :
         /\ tm.delay \div 60000 = svc.settings.syncInterval
         /\ tm.delay % 60000 = 0

----------------------------------------------------------------------------
(* C39 *)

\* the passes after which lastSyncTime was assigned
StampedPasses == {svc.stamps[i].pass : i \in 1..Len(svc.stamps)}

\* C39: settings.lastSyncTime is assigned only after a sync pass that has
\* returned without error, and holds the time of the last such assignment.
\* A pass that raised leaves it as it was, and so does a sync request
\* without an access token, which starts no pass and sends no request.
C39_StampOnlyAfterReturnedPass ==
  /\ svc.settings.lastSyncTime =
       IF svc.stamps = <<>> THEN NoNum ELSE svc.stamps[Len(svc.stamps)].time
  /\ \A p \in StampedPasses :
       /\ task[p].top = "sync" /\ task[p].pc = "done"
       /\ task[p].ret # NoNum /\ task[p].error = "none"
       /\ svc.settings.accessToken # <<>>
  /\ \A p \in Passes :
       /\ task[p].pc = "failed" => p \notin StampedPasses
       /\ task[p].top = "syncBookmarks" =>
            /\ svc.settings.accessToken = <<>>
            /\ p \notin StampedPasses
            /\ task[p].pc = "done" /\ task[p].notices = <<"log in first">>
            /\ task[p].reqLog = <<>> /\ task[p].trace = <<>>
            /\ LastStarted(p) => vault = task[p].vault0 /\ folders = task[p].folders0

\* the first pass returned at time 0 and was stamped; the second pass raised
\* at time 1 and syncBookmarks has shown its notice: lastSyncTime is still 0
C39_Witness ==
  /\ svc.handled = {1, 2}
  /\ task[1].top = "sync" /\ task[1].pc = "done"
  /\ task[2].top = "sync" /\ task[2].pc = "failed"
  /\ task[2].notices # <<>> /\ Last(task[2].notices) = "sync failed"
  /\ clock = 1
  /\ svc.stamps = <<[pass |-> 1, time |-> 0]>>
  /\ svc.settings.lastSyncTime = 0

====
